---- MODULE Spec2Model ----
(***************************************************************************)
(* Connection-management core of the Proton VPN Linux client:              *)
(*   - KillSwitch            (proton_lib/core/killswitch/killswitch.py)    *)
(*   - IPv6LeakProtection    (.../killswitch/ipv6_leak_protection.py)      *)
(*   - ProtonVPNReconnector  (proton_lib/daemon/dbus_daemon_reconnector.py)*)
(*   - the foreground client (nm_client.py, default_settings_backend.py)   *)
(*                                                                         *)
(* Every Python call that re-reads NetworkManager and issues at most one   *)
(* nmcli / D-Bus command is one step.  The statements of a handler that    *)
(* are still to run are kept in `stack` (the continuation of the running   *)
(* handler); the event loop takes the next event only when it is empty.    *)
(***************************************************************************)
EXTENDS Naturals, Integers, Sequences, FiniteSets, TLC

----------------------------------------------------------------------------
(* Program constants *)

\* killswitch.py:133 / :203  "if pre_attempts >= 5"
MAX_KS_ATTEMPTS == 5

\* enums.py VPNConnectionStateEnum
IS_ACTIVE == 5
FAILED == 6
DISCONNECTED == 7
BEING_ESTABLISHED == 3

\* enums.py VPNConnectionReasonEnum
REASON_UNKNOWN == 0
USER_HAS_DISCONNECTED == 2

\* dbus_daemon_reconnector.py:180  NMState "connected global"
NM_STATE_CONNECTED_GLOBAL == 70
\* some other NMState
NM_STATE_CONNECTED_SITE == NM_STATE_CONNECTED_GLOBAL - 10

\* nmcli return codes looked at by run_subprocess / create_routed_connection
RC_OK == 0
RC_NOT_FOUND == 10
RC_INVALID == 2
\* some other return code
RC_ERROR == RC_OK + 1

(* Bounds of the model *)

\* max_attempts of the reconnector (the source's default is 100)
MaxAttempts == 3
\* pending GLib timeouts kept by the model
MaxTimers == 2
\* failed_attempts kept by the model when max_attempts is 0 (unlimited)
MaxFailed == 2
\* VpnStateChanged listeners attached to the tunnel connection
MaxListeners == 2
\* logical servers in a catalog
MaxServers == 2
\* views of the toplevel server list alive at once
MaxViews == 2
\* entries in one update_load_data answer
MaxUpdates == 1
\* the n of get_fastest_servers(n)
MaxN == 2
\* conditions chained in one view
MaxChain == 2

----------------------------------------------------------------------------
VARIABLES
    nm,          \* NetworkManager: connection name -> [e: exists, a: active]
    cc,          \* NetworkManager connectivity check [enabled, available]
    tracker,     \* KillSwitch.interface_state_tracker
    tracker6,    \* IPv6LeakProtection.interface_state_tracker
    stack,       \* statements of the running handler still to execute
    handler,     \* the handler that runs (or ran last)
    evt,         \* <<state, reason>> of the tunnel event being handled
    escaped,     \* an error left the running handler uncaught
    policy,      \* settings.killswitch (persisted)
    daemon,      \* "stopped" | "starting" | "running"
    failed_attempts,
    is_user_session_locked,
    suspend_lock,   \* "none" | "held"
    shutdown_lock,
    timers,      \* GLib timeouts scheduled with vpn_activator
    vpn,         \* tunnel connection object: "absent","inactive","preparing","active"
    base,        \* an active base connection with a default route exists
    listeners,   \* VpnStateChanged listeners attached to the tunnel connection
    max_attempts,   \* ProtonVPNReconnector.max_attempts (0: unlimited)
    hist,        \* history of the running handler / daemon lifetime
    logicals,    \* toplevel ServerList: _data["LogicalServers"]
    views,       \* the live sub-lists (views) of the toplevel ServerList
    env,         \* [vpn_tier: api_session.vpn_tier, secure_core: settings.secure_core]
    sel          \* the last call on the server list and what it gave

vars == << nm, cc, tracker, tracker6, stack, handler, evt, escaped, policy,
           daemon, failed_attempts, is_user_session_locked, suspend_lock,
           shutdown_lock, timers, vpn, base, listeners, max_attempts, hist,
           logicals, views, env, sel >>

\* the server list, which no part of the daemon or of the kill switch touches
lvars == << logicals, views, env, sel >>

KS == "pvpn-killswitch"
RT == "pvpn-routed-killswitch"
V6 == "pvpn-ipv6leak-protection"
Conns == {KS, RT, V6}

Absent == [e |-> FALSE, a |-> FALSE]
Up == [e |-> TRUE, a |-> TRUE]
Down == [e |-> TRUE, a |-> FALSE]
IfaceStates == {Absent, Up, Down}

Policies == {"DISABLED", "SOFT", "HARD"}

\* a statement still to execute: op, connection name / kind, counter, flag
Fr(op, c, n, f) == [op |-> op, c |-> c, n |-> n, f |-> f]
Op(op) == Fr(op, "", 0, FALSE)

top == Head(stack)
rest == Tail(stack)
Running(op) == stack # << >> /\ top.op = op

----------------------------------------------------------------------------
(* try / except *)

\* The body of a try block is followed on the stack by an "endtry" marker
\* naming its except clause.  Reaching the marker normally drops it.
RECURSIVE Norm(_)
Norm(s) == IF s # << >> /\ Head(s).op = "endtry" THEN Norm(Tail(s)) ELSE s

HasMarker(s) == \E i \in 1..Len(s) : s[i].op = "endtry"
FirstMarker(s) ==
    CHOOSE i \in 1..Len(s) : s[i].op = "endtry" /\ \A j \in 1..(i-1) : s[j].op # "endtry"


\* what an except clause does with the statements that follow the try block
OnCatch(m, r) ==
    CASE m.c = "pass" -> r
      [] m.c = "return_false" -> << Fr("act_failed", "", 0, m.f) >> \o Tail(r)
      [] m.c = "v6_deactivate" -> << Op("v6_deactivate") >> \o r
      [] OTHER -> r

\* An error that no except clause catches leaves the handler: only the
\* return to the caller of the handler ("end") remains.
AfterRaise(s) ==
    IF HasMarker(s)
    THEN LET i == FirstMarker(s) IN Norm(OnCatch(s[i], SubSeq(s, i + 1, Len(s))))
    ELSE << Op("end") >>

\* the running statement completes and `s` is what remains to run
Continue(s) == stack' = Norm(s) /\ escaped' = escaped
\* the running statement raises
Raise == stack' = AfterRaise(rest) /\ escaped' = (escaped \/ ~HasMarker(rest))

----------------------------------------------------------------------------
(* KillSwitch: conditions of killswitch.py *)

\* update_connection_status: the tracker is what NetworkManager reports
Track(n) == [c \in {KS, RT} |-> n[c]]

RunSubprocessRaisesMutant(rc) == rc # RC_OK
RunSubprocessRaises(rc) == rc # RC_OK /\ rc # RC_NOT_FOUND

ExhaustedMutant(n) == n > MAX_KS_ATTEMPTS
Exhausted(n) == n >= MAX_KS_ATTEMPTS

PreHappy(t) == t[KS].a /\ ~t[RT].e
PreArmed(t) == ~t[KS].a /\ t[RT].a
PreDeleteRouted(t) == t[RT].e /\ t[RT].a

PostHappy(t) == ~t[KS].a /\ t[RT].a
PostSoftHappy(t, soft) == soft /\ (~t[RT].a \/ ~t[RT].e)
PostArmed(t) == t[KS].a /\ (~t[RT].e \/ ~t[RT].a)

\* delete_all_connections: blocking first, then routed
DeleteAllMutant == << Fr("delete", KS, 0, FALSE) >>
DeleteAll == << Fr("delete", KS, 0, FALSE), Fr("delete", RT, 0, FALSE) >>

\* the first statement of KillSwitch.manage(action) dispatches on the action
ManageTarget(action) ==
    CASE action = "PRE_CONNECTION" -> << Fr("pre", "", 0, FALSE) >>
      [] action = "POST_CONNECTION" -> << Fr("post", "", 0, FALSE) >>
      [] action = "SOFT" -> << Op("create_ks"), Fr("post", "", 0, TRUE) >>
      [] action = "DISABLE" -> DeleteAll

\* no nmcli command has returned yet
NoRc == RC_OK - 1

\* history of the running handler
\*   dels         nmcli delete commands issued since disabled was set
\*   disabled     delete_all_connections has returned in this handler and
\*                no interface was created or activated since
\*   conv         convergence attempts made by the arm operation that runs
\*   exhausted    it raised "Exceeded maximum attempts"; generic: it raised
\*                "Routed connection does not exist"
\*   failed       a command of the handler failed
\*   sched, acts  retries scheduled, tunnel activations requested
\*   rel          the release of an inhibitor lock was reached
\*   ext          another tool changed a kill-switch interface meanwhile
\*   closes       successful os.close calls on an inhibitor lock
\*   armed        manage(PRE_CONNECTION) has returned without error
\*   cmds         nmcli create commands issued by the create_routed_connection
\*                call of the running kill-switch operation
\*   rc           return code of the last nmcli create or delete command of
\*                the running kill-switch operation
NoHist == [dels |-> 0, disabled |-> FALSE, conv |-> 0, exhausted |-> FALSE,
           generic |-> FALSE, failed |-> FALSE, sched |-> 0, acts |-> 0,
           rel |-> FALSE, ext |-> FALSE, closes |-> 0, armed |-> FALSE,
           cmds |-> 0, rc |-> NoRc]

KsFrame == UNCHANGED << tracker6, handler, evt, policy, daemon, failed_attempts,
                        is_user_session_locked, suspend_lock, shutdown_lock,
                        timers, vpn, base, listeners, max_attempts, lvars >>

----------------------------------------------------------------------------
(* KillSwitch: steps *)

\* _ensure_connectivity_check_is_disabled; TRUE in `ok` when it does not raise
CcOutcomes ==
    IF ~cc.enabled THEN { [cc |-> cc, ok |-> TRUE] }
    ELSE IF ~cc.available THEN { [cc |-> cc, ok |-> FALSE] }
    ELSE { [cc |-> [cc EXCEPT !.enabled = FALSE], ok |-> TRUE],
           [cc |-> cc, ok |-> FALSE] }

\* KillSwitch.manage(action)
KsManage ==
    /\ Running("manage")
    /\ \E o \in CcOutcomes :
         /\ cc' = o.cc
         /\ IF o.ok
            THEN /\ tracker' = Track(nm)
                 /\ Continue(ManageTarget(top.c) \o << Fr("ret", top.c, 0, FALSE) >> \o rest)
                 /\ hist' = [hist EXCEPT !.conv = 0, !.exhausted = FALSE,
                                         !.generic = FALSE]
            ELSE /\ Raise
                 /\ hist' = [hist EXCEPT !.failed = TRUE]
                 /\ UNCHANGED tracker
    /\ UNCHANGED nm
    /\ KsFrame


\* create_killswitch_connection -> create_connection -> run_subprocess
KsCreate ==
    /\ Running("create_ks")
    /\ tracker' = Track(nm)
    /\ IF nm[KS].e
       THEN Continue(rest) /\ UNCHANGED << nm, hist >>
       ELSE \E rc \in {RC_OK, RC_ERROR} :
              IF RunSubprocessRaises(rc)
              THEN /\ Raise
                   /\ hist' = [hist EXCEPT !.failed = TRUE, !.rc = rc]
                   /\ UNCHANGED nm
              ELSE /\ Continue(rest)
                   /\ nm' = [nm EXCEPT ![KS] = Up]
                   /\ hist' = [hist EXCEPT !.disabled = FALSE, !.rc = rc]
    /\ UNCHANGED cc
    /\ KsFrame

RetryRoutedMutant(rc, try_route_addrs) == rc = RC_INVALID

\* create_routed_connection: "if e.additional_context.returncode == 2 and not
\* try_route_addrs"
RetryRouted(rc, try_route_addrs) == rc = RC_INVALID /\ ~try_route_addrs

\* create_routed_connection(server_ip, try_route_addrs = top.f)
KsCreateRouted ==
    /\ Running("create_rt")
    /\ tracker' = Track(nm)
    /\ IF nm[RT].e
       THEN /\ Continue(rest)
            /\ hist' = IF top.f THEN hist ELSE [hist EXCEPT !.cmds = 0]
            /\ UNCHANGED nm
       ELSE \E rc \in {RC_OK, RC_INVALID, RC_ERROR} :
              LET h == [hist EXCEPT !.cmds = IF top.f THEN @ + 1 ELSE 1, !.rc = rc] IN
              IF RunSubprocessRaises(rc)
              THEN /\ IF RetryRouted(rc, top.f)
                      THEN /\ Continue(<< Fr("create_rt", RT, 0, TRUE) >> \o rest)
                           /\ hist' = h
                      ELSE /\ Raise
                           /\ hist' = [h EXCEPT !.failed = TRUE]
                   /\ UNCHANGED nm
              ELSE /\ Continue(rest)
                   /\ nm' = [nm EXCEPT ![RT] = Up]
                   /\ hist' = [h EXCEPT !.disabled = FALSE]
    /\ UNCHANGED cc
    /\ KsFrame

\* activate_connection(conn_name)
KsActivate ==
    /\ Running("activate")
    /\ tracker' = Track(nm)
    /\ IF nm[top.c].e /\ ~nm[top.c].a
       THEN \E out \in {"ok", "dbus_error", "empty"} :
              IF out = "ok"
              THEN /\ Continue(rest)
                   /\ nm' = [nm EXCEPT ![top.c] = Up]
                   /\ hist' = [hist EXCEPT !.disabled = FALSE]
              ELSE /\ Raise
                   /\ hist' = [hist EXCEPT !.failed = TRUE]
                   /\ UNCHANGED nm
       ELSE Continue(rest) /\ UNCHANGED << nm, hist >>
    /\ UNCHANGED cc
    /\ KsFrame

\* deactivate_connection(conn_name)
KsDeactivate ==
    /\ Running("deactivate")
    /\ tracker' = Track(nm)
    /\ IF nm[top.c].a
       THEN \E out \in {"ok", "dbus_error"} :
              IF out = "ok"
              THEN /\ Continue(rest)
                   /\ nm' = [nm EXCEPT ![top.c] = Down]
                   /\ UNCHANGED hist
              ELSE /\ Raise
                   /\ hist' = [hist EXCEPT !.failed = TRUE]
                   /\ UNCHANGED nm
       ELSE Continue(rest) /\ UNCHANGED << nm, hist >>
    /\ UNCHANGED cc
    /\ KsFrame

\* delete_connection(conn_name)
KsDelete ==
    /\ Running("delete")
    /\ tracker' = Track(nm)
    /\ IF nm[top.c].e
       THEN \E rc \in {RC_OK, RC_NOT_FOUND, RC_ERROR} :
              IF RunSubprocessRaises(rc)
              THEN /\ Raise
                   /\ hist' = [hist EXCEPT !.failed = TRUE, !.dels = @ + 1, !.rc = rc]
                   /\ UNCHANGED nm
              ELSE /\ Continue(rest)
                   /\ nm' = [nm EXCEPT ![top.c] = Absent]
                   /\ hist' = [hist EXCEPT !.dels = @ + 1, !.rc = rc]
       ELSE Continue(rest) /\ UNCHANGED << nm, hist >>
    /\ UNCHANGED cc
    /\ KsFrame

PreNextMutant(t, n) ==
    IF PreHappy(t)
    THEN << Fr("create_rt", RT, 0, FALSE) >>
    ELSE IF PreArmed(t) THEN << >>
    ELSE (IF PreDeleteRouted(t) THEN << Fr("delete", RT, 0, FALSE) >> ELSE << >>)
         \o << Fr("pre_ks", "", n, FALSE) >>

\* what setup_pre_connection_ks(server_ip, n) runs next, given the tracker
PreNext(t, n) ==
    IF PreHappy(t)
    THEN << Fr("create_rt", RT, 0, FALSE), Fr("deactivate", KS, 0, FALSE) >>
    ELSE IF PreArmed(t) THEN << >>
    ELSE (IF PreDeleteRouted(t) THEN << Fr("delete", RT, 0, FALSE) >> ELSE << >>)
         \o << Fr("pre_ks", "", n, FALSE) >>

\* setup_pre_connection_ks, up to the deletion of the routed interface
KsPre ==
    /\ Running("pre")
    /\ tracker' = Track(nm)
    /\ IF Exhausted(top.n)
       THEN Raise /\ hist' = [hist EXCEPT !.exhausted = TRUE]
       ELSE Continue(PreNext(Track(nm), top.n) \o rest) /\ UNCHANGED hist
    /\ UNCHANGED << nm, cc >>
    /\ KsFrame

\* setup_pre_connection_ks, "check if ks exists" and the recursive call
KsPreKs ==
    /\ Running("pre_ks")
    /\ Continue(<< IF tracker[KS].e THEN Fr("activate", KS, 0, FALSE)
                                    ELSE Op("create_ks"),
                   Fr("pre", "", top.n + 1, FALSE) >> \o rest)
    /\ hist' = [hist EXCEPT !.conv = @ + 1]
    /\ UNCHANGED << nm, cc, tracker >>
    /\ KsFrame

\* what setup_post_connection_ks(_, n, soft) runs next, given the tracker
PostNext(t, n, soft) ==
    IF PostHappy(t)
    THEN << Fr("activate", KS, 0, FALSE), Fr("delete", RT, 0, FALSE) >>
    ELSE IF PostSoftHappy(t, soft) THEN << Fr("activate", KS, 0, FALSE) >>
    ELSE IF PostArmed(t) THEN << >>
    ELSE (IF t[KS].a THEN << Fr("deactivate", KS, 0, FALSE) >> ELSE << >>)
         \o << Fr("post_rt", "", n, soft) >>

\* setup_post_connection_ks, up to the deactivation of the blocking interface
KsPost ==
    /\ Running("post")
    /\ tracker' = Track(nm)
    /\ IF Exhausted(top.n)
       THEN Raise /\ hist' = [hist EXCEPT !.exhausted = TRUE]
       ELSE Continue(PostNext(Track(nm), top.n, top.f) \o rest) /\ UNCHANGED hist
    /\ UNCHANGED << nm, cc >>
    /\ KsFrame

\* setup_post_connection_ks, "check if routed ks exists" and the recursive call
KsPostRt ==
    /\ Running("post_rt")
    /\ IF tracker[RT].e
       THEN /\ Continue(<< Fr("activate", RT, 0, FALSE),
                           Fr("post", "", top.n + 1, top.f) >> \o rest)
            /\ hist' = [hist EXCEPT !.conv = @ + 1]
       ELSE /\ Raise
            /\ hist' = [hist EXCEPT !.generic = TRUE]
    /\ UNCHANGED << nm, cc, tracker >>
    /\ KsFrame

\* update_from_user_configuration_menu(action)
MenuTarget(action) ==
    IF action = "HARD"
    THEN << Fr("delete", RT, 0, FALSE), Fr("endtry", "pass", 0, FALSE), Op("menu_ks") >>
    ELSE DeleteAll

KsMenu ==
    /\ Running("menu")
    /\ \E o \in CcOutcomes :
         /\ cc' = o.cc
         /\ IF o.ok
            THEN /\ tracker' = Track(nm)
                 /\ Continue(MenuTarget(top.c)
                             \o << Fr("ret", IF top.c = "HARD" THEN "MENU_HARD" ELSE "MENU_OFF",
                                      0, FALSE) >> \o rest)
                 /\ UNCHANGED hist
            ELSE /\ Raise
                 /\ hist' = [hist EXCEPT !.failed = TRUE]
                 /\ UNCHANGED tracker
    /\ UNCHANGED nm
    /\ KsFrame

\* update_from_user_configuration_menu(HARD), after the deletion of routed
KsMenuKs ==
    /\ Running("menu_ks")
    /\ Continue(<< IF ~tracker[KS].e THEN Op("create_ks")
                                     ELSE Fr("activate", KS, 0, FALSE) >> \o rest)
    /\ UNCHANGED << nm, cc, tracker, hist >>
    /\ KsFrame

\* the kill-switch operation named by top.c has returned to its caller
KsReturn ==
    /\ Running("ret")
    /\ Continue(rest)
    /\ hist' = IF top.c \in {"DISABLE", "MENU_OFF"}
               THEN [hist EXCEPT !.disabled = TRUE, !.dels = 0, !.cmds = 0, !.rc = NoRc]
               ELSE IF top.c = "PRE_CONNECTION"
               THEN [hist EXCEPT !.armed = TRUE, !.cmds = 0, !.rc = NoRc]
               ELSE [hist EXCEPT !.cmds = 0, !.rc = NoRc]
    /\ UNCHANGED << nm, cc, tracker >>
    /\ KsFrame

KillSwitchStep ==
    \/ KsManage \/ KsCreate \/ KsCreateRouted \/ KsActivate \/ KsDeactivate
    \/ KsDelete \/ KsPre \/ KsPreKs \/ KsPost \/ KsPostRt \/ KsMenu \/ KsMenuKs
    \/ KsReturn


----------------------------------------------------------------------------
(* IPv6LeakProtection *)

\* update_connection_status of ipv6_leak_protection.py: the loop over the
\* active connections asks for the properties of `conn`, a settings object
\* left over from the first loop, which NetworkManager answers with a
\* DBusException; IS_RUNNING is therefore never set.
Track6(n) == [e |-> n[V6].e, a |-> FALSE]

\* add_leak_protection: "not EXISTS or EXISTS and not IS_RUNNING"
V6MustAdd(t) == ~t.e \/ (t.e /\ ~t.a)

V6Frame == UNCHANGED << tracker, handler, evt, policy, daemon, failed_attempts,
                        is_user_session_locked, suspend_lock, shutdown_lock,
                        timers, vpn, base, listeners, max_attempts, lvars >>

\* IPv6LeakProtection.manage(action)
V6ManageTarget(action, t) ==
    IF action = "ENABLE"
    THEN IF V6MustAdd(t) THEN << Fr("v6_manage", "DISABLE", 0, FALSE), Op("v6_add") >>
                         ELSE << >>
    ELSE << Op("v6_remove"), Fr("endtry", "v6_deactivate", 0, FALSE) >>

V6Manage ==
    /\ Running("v6_manage")
    /\ \E o \in CcOutcomes :
         /\ cc' = o.cc
         /\ IF o.ok
            THEN /\ tracker6' = Track6(nm)
                 /\ Continue(V6ManageTarget(top.c, Track6(nm)) \o rest)
                 /\ UNCHANGED hist
            ELSE /\ Raise
                 /\ hist' = [hist EXCEPT !.failed = TRUE]
                 /\ UNCHANGED tracker6
    /\ UNCHANGED nm
    /\ V6Frame

\* add_leak_protection, the nmcli add
V6Add ==
    /\ Running("v6_add")
    /\ \E rc \in {RC_OK, RC_ERROR} :
         IF RunSubprocessRaises(rc)
         THEN /\ Raise
              /\ hist' = [hist EXCEPT !.failed = TRUE]
              /\ UNCHANGED nm
         ELSE /\ Continue(rest)
              /\ nm' = [nm EXCEPT ![V6] = Up]
              /\ UNCHANGED hist
    /\ UNCHANGED << cc, tracker6 >>
    /\ V6Frame

\* remove_leak_protection: a failed delete falls back to deactivate_connection
V6Remove ==
    /\ Running("v6_remove")
    /\ tracker6' = Track6(nm)
    /\ IF nm[V6].e
       THEN \E rc \in {RC_OK, RC_NOT_FOUND, RC_ERROR} :
              IF RunSubprocessRaises(rc)
              THEN /\ Continue(<< Op("v6_deactivate") >> \o rest)
                   /\ hist' = [hist EXCEPT !.failed = TRUE]
                   /\ UNCHANGED nm
              ELSE /\ Continue(rest)
                   /\ nm' = [nm EXCEPT ![V6] = Absent]
                   /\ UNCHANGED hist
       ELSE Continue(rest) /\ UNCHANGED << nm, hist >>
    /\ UNCHANGED cc
    /\ V6Frame

\* IPv6LeakProtection.deactivate_connection
V6Deactivate ==
    /\ Running("v6_deactivate")
    /\ tracker6' = Track6(nm)
    /\ IF Track6(nm).a /\ nm[V6].a
       THEN \E out \in {"ok", "dbus_error"} :
              IF out = "ok"
              THEN /\ Continue(rest)
                   /\ nm' = [nm EXCEPT ![V6] = Down]
                   /\ UNCHANGED hist
              ELSE /\ Raise
                   /\ hist' = [hist EXCEPT !.failed = TRUE]
                   /\ UNCHANGED nm
       ELSE Continue(rest) /\ UNCHANGED << nm, hist >>
    /\ UNCHANGED cc
    /\ V6Frame

IPv6Step == V6Manage \/ V6Add \/ V6Remove \/ V6Deactivate


----------------------------------------------------------------------------
(* ProtonVPNReconnector: conditions of dbus_daemon_reconnector.py *)

NoEvt == << 0, 0 >>

\* on_vpn_state_changed, first branch
IsActiveBranchMutant(state, locked) == state = IS_ACTIVE
IsActiveBranch(state, locked) == state = IS_ACTIVE /\ ~locked

\* on_vpn_state_changed, second branch
UserDisconnectBranchMutant(state, user, locked) ==
    state \in {DISCONNECTED, FAILED} /\ ~locked
UserDisconnectBranch(state, user, locked) ==
    state = DISCONNECTED /\ user /\ ~locked

\* on_vpn_state_changed, third branch
FailedBranchMutant(state, locked) == state \in {FAILED, DISCONNECTED}
FailedBranch(state, locked) == state \in {FAILED, DISCONNECTED} /\ ~locked

\* "reconnect if haven't reached max_attempts"
ShouldReconnectAlways(failed, max) == TRUE
ShouldReconnectMutant(failed, max) == max = 0 \/ failed <= max
ShouldReconnect(failed, max) == max = 0 \/ failed < max

\* _create_on_suspend_lock / _create_on_shutdown_lock
CreateLock(lock, ok) == IF lock # "none" THEN lock ELSE IF ok THEN "held" ELSE "none"

\* the lock attribute after os.close(lock) succeeded
AfterCloseMutant(lock) == lock
AfterClose(lock) == "none"

\* get_active_connection(): the active connection that has the default route
ActiveConnection == IF vpn = "active" THEN "vpn" ELSE IF base THEN "base" ELSE "none"

\* the model keeps room for k more retries
RoomFor(k) ==
    ShouldReconnect(failed_attempts, max_attempts) =>
        /\ timers + k <= MaxTimers
        /\ max_attempts = 0 => failed_attempts + k <= MaxFailed

\* an event is taken from the loop: the handler's statements are `frames`
Begin(h, e, frames) ==
    /\ stack = << >>
    /\ handler' = h
    /\ evt' = e
    /\ escaped' = FALSE
    /\ stack' = Norm(frames \o << Op("end") >>)
    /\ hist' = NoHist

NmFrame == UNCHANGED << nm, cc, tracker, tracker6, policy, base, max_attempts, lvars >>

----------------------------------------------------------------------------
(* ProtonVPNReconnector: signal handlers *)

OnSessionLock ==
    /\ daemon = "running"
    /\ Begin("lock", NoEvt, << >>)
    /\ is_user_session_locked' = TRUE
    /\ NmFrame
    /\ UNCHANGED << daemon, failed_attempts, suspend_lock, shutdown_lock, timers,
                    vpn, listeners >>

OnSessionUnlock ==
    /\ daemon = "running"
    /\ RoomFor(2)
    /\ Begin("unlock", NoEvt, << Fr("act", "", 0, FALSE) >>)
    /\ is_user_session_locked' = FALSE
    /\ NmFrame
    /\ UNCHANGED << daemon, failed_attempts, suspend_lock, shutdown_lock, timers,
                    vpn, listeners >>

\* on_prepare_for_shutdown: the statements before the release of the lock
ShutdownBody(p) ==
    (IF p # "HARD" THEN DeleteAll \o << Fr("ret", "DISABLE", 0, FALSE) >> ELSE << >>)
    \o << Op("v6_remove"), Fr("release", "shutdown", 0, FALSE) >>

OnPrepareForShutdown ==
    /\ daemon = "running"
    /\ Begin("shutdown", NoEvt, ShutdownBody(policy))
    /\ NmFrame
    /\ UNCHANGED << daemon, failed_attempts, is_user_session_locked, suspend_lock,
                    shutdown_lock, timers, vpn, listeners >>

OnPrepareForSuspendMutant ==
    /\ daemon = "running"
    /\ Begin("suspend", NoEvt, << Fr("release", "suspend", 0, FALSE) >>)
    /\ NmFrame
    /\ UNCHANGED << daemon, failed_attempts, is_user_session_locked, suspend_lock,
                    shutdown_lock, timers, vpn, listeners >>

\* on_prepare_for_suspend, up to "if not self.suspend_lock"
OnPrepareForSuspend ==
    /\ daemon = "running"
    /\ Begin("suspend", NoEvt, << Fr("release", "suspend", 0, FALSE) >>)
    /\ is_user_session_locked' = TRUE
    /\ NmFrame
    /\ UNCHANGED << daemon, failed_attempts, suspend_lock, shutdown_lock, timers,
                    vpn, listeners >>

NetworkBodyMutant(state) == << Fr("act", "", 0, FALSE) >>

\* on_network_state_changed(state)
NetworkBody(state) ==
    IF state = NM_STATE_CONNECTED_GLOBAL THEN << Fr("act", "", 0, FALSE) >> ELSE << >>

OnNetworkStateChanged ==
    /\ daemon = "running"
    /\ RoomFor(2)
    /\ \E state \in {NM_STATE_CONNECTED_GLOBAL, NM_STATE_CONNECTED_SITE} :
         Begin("network", << state, 0 >>, NetworkBody(state))
    /\ NmFrame
    /\ UNCHANGED << daemon, failed_attempts, is_user_session_locked, suspend_lock,
                    shutdown_lock, timers, vpn, listeners >>

\* the tunnel connection changes state; NetworkManager emits VpnStateChanged
\* to every listener attached to it.  A failed or disconnected active
\* connection is removed by NetworkManager together with its listeners.
VpnAfter(state) ==
    CASE state = IS_ACTIVE -> "active"
      [] state = BEING_ESTABLISHED -> "preparing"
      [] OTHER -> "inactive"

VpnEvent ==
    /\ vpn \in {"preparing", "active"}
    /\ RoomFor(listeners)
    /\ \E state \in {BEING_ESTABLISHED, IS_ACTIVE, FAILED, DISCONNECTED},
          reason \in {REASON_UNKNOWN, USER_HAS_DISCONNECTED} :
         /\ state = IS_ACTIVE => base
         /\ Begin("vpn_event", << state, reason >>,
                  [i \in 1..(IF daemon = "running" THEN listeners ELSE 0) |->
                      Fr("ovsc", "", state, reason = USER_HAS_DISCONNECTED)])
         /\ vpn' = VpnAfter(state)
         /\ listeners' = IF state \in {FAILED, DISCONNECTED} THEN 0 ELSE listeners
    /\ NmFrame
    /\ UNCHANGED << daemon, failed_attempts, is_user_session_locked, suspend_lock,
                    shutdown_lock, timers >>

\* a GLib timeout fires: vpn_activator(glib_reconnect = True)
TimerFire ==
    /\ daemon = "running"
    /\ timers > 0
    /\ Begin("timer", NoEvt, << Fr("act", "", 0, TRUE) >>)
    /\ timers' = timers - 1
    /\ NmFrame
    /\ UNCHANGED << daemon, failed_attempts, is_user_session_locked, suspend_lock,
                    shutdown_lock, vpn, listeners >>


----------------------------------------------------------------------------
(* ProtonVPNReconnector: statements *)

ActiveBodyMutant(p) ==
    << Fr("v6_manage", "ENABLE", 0, FALSE) >>
    \o (IF p # "DISABLED" THEN << Fr("manage", "POST_CONNECTION", 0, FALSE) >> ELSE << >>)

\* on_vpn_state_changed, IS_ACTIVE: the statements after the counter reset
ActiveBody(p) ==
    << Fr("v6_manage", "ENABLE", 0, FALSE), Fr("endtry", "pass", 0, FALSE) >>
    \o (IF p # "DISABLED" THEN << Fr("manage", "POST_CONNECTION", 0, FALSE) >> ELSE << >>)

\* on_vpn_state_changed, user disconnect: the statements after vpn_iface.Delete()
UserDisconnectBodyMutant(p) ==
    << Fr("v6_manage", "DISABLE", 0, FALSE), Fr("endtry", "pass", 0, FALSE) >>
    \o DeleteAll \o << Fr("ret", "DISABLE", 0, FALSE) >>
    \o << Op("quit") >>
UserDisconnectBody(p) ==
    << Fr("v6_manage", "DISABLE", 0, FALSE), Fr("endtry", "pass", 0, FALSE) >>
    \o (IF p # "HARD" THEN DeleteAll \o << Fr("ret", "DISABLE", 0, FALSE) >> ELSE << >>)
    \o << Op("quit") >>

SvFrame == UNCHANGED << nm, cc, tracker, tracker6, handler, evt, policy, base,
                        max_attempts, lvars >>

\* on_vpn_state_changed(state = top.n, reason is USER_HAS_DISCONNECTED = top.f)
OnVpnStateChanged ==
    /\ Running("ovsc")
    /\ IF IsActiveBranch(top.n, is_user_session_locked)
       THEN /\ failed_attempts' = 0
            /\ Continue(ActiveBody(policy) \o rest)
            /\ UNCHANGED << timers, vpn, hist >>
       ELSE IF UserDisconnectBranch(top.n, top.f, is_user_session_locked)
       THEN /\ failed_attempts' = 0
            /\ \/ vpn' = "absent" /\ UNCHANGED hist
               \/ /\ vpn # "absent"
                  /\ vpn' = vpn
                  /\ hist' = [hist EXCEPT !.failed = TRUE]
            /\ Continue(UserDisconnectBody(policy) \o rest)
            /\ UNCHANGED timers
       ELSE IF FailedBranch(top.n, is_user_session_locked)
       THEN /\ IF ShouldReconnect(failed_attempts, max_attempts)
               THEN /\ failed_attempts' = failed_attempts + 1
                    /\ timers' = timers + 1
                    /\ hist' = [hist EXCEPT !.sched = @ + 1]
               ELSE UNCHANGED << failed_attempts, timers, hist >>
            /\ Continue(rest)
            /\ UNCHANGED vpn
       ELSE /\ Continue(rest)
            /\ UNCHANGED << failed_attempts, timers, vpn, hist >>
    /\ SvFrame
    /\ UNCHANGED << daemon, is_user_session_locked, suspend_lock, shutdown_lock,
                    listeners >>

\* loop.quit(): loop.run() returns and the process ends
LoopQuit ==
    /\ Running("quit")
    /\ Continue(rest)
    /\ daemon' = "stopped"
    /\ timers' = 0
    /\ listeners' = 0
    /\ SvFrame
    /\ UNCHANGED << failed_attempts, is_user_session_locked, suspend_lock,
                    shutdown_lock, vpn, hist >>

\* vpn_activator(glib_reconnect = top.f), up to "if active_connection is None
\* or vpn_interface is None"; a callback of GLib.timeout_add that returns True
\* stays scheduled
VpnActivator ==
    /\ Running("act")
    /\ IF is_user_session_locked
       THEN Continue(rest) /\ UNCHANGED timers
       ELSE IF ActiveConnection = "none" \/ vpn = "absent"
       THEN IF ~top.f
            THEN /\ Continue(<< Fr("ovsc", "", FAILED, FALSE),
                                Fr("act2", "", 0, top.f) >> \o rest)
                 /\ UNCHANGED timers
            ELSE /\ Continue(rest)
                 /\ timers' = timers + 1
       ELSE Continue(<< Fr("act2", "", 0, top.f) >> \o rest) /\ UNCHANGED timers
    /\ SvFrame
    /\ UNCHANGED << daemon, failed_attempts, is_user_session_locked, suspend_lock,
                    shutdown_lock, vpn, listeners, hist >>

\* vpn_signal_handler(conn): one more listener on the active connection
Attach(n) == IF n < MaxListeners THEN n + 1 ELSE n

\* vpn_activator, from check_active_vpn_connection on
VpnActivator2 ==
    /\ Running("act2")
    /\ IF ActiveConnection = "vpn"
       THEN /\ listeners' = Attach(listeners)
            /\ Continue(rest)
       ELSE \E being_prepared_raises \in BOOLEAN :
              IF ~being_prepared_raises /\ vpn = "preparing"
              THEN /\ Continue((IF policy # "DISABLED"
                                THEN << Fr("manage", "PRE_CONNECTION", 0, FALSE) >>
                                ELSE << >>)
                               \o << Op("attach") >> \o rest)
                   /\ UNCHANGED listeners
              ELSE /\ Continue(<< Fr("msvc", "", 0, top.f) >> \o rest)
                   /\ UNCHANGED listeners
    /\ SvFrame
    /\ UNCHANGED << daemon, failed_attempts, is_user_session_locked, suspend_lock,
                    shutdown_lock, timers, vpn, hist >>

\* vpn_activator, vpn_signal_handler(conn) of the connection being prepared
VpnSignalHandler ==
    /\ Running("attach")
    /\ listeners' = (IF vpn \in {"preparing", "active"} THEN Attach(listeners) ELSE listeners)
    /\ Continue(rest)
    /\ SvFrame
    /\ UNCHANGED << daemon, failed_attempts, is_user_session_locked, suspend_lock,
                    shutdown_lock, timers, vpn, hist >>

ManualStartBodyMutant(p, glib) ==
    (IF p # "DISABLED"
     THEN << Fr("manage", "PRE_CONNECTION", 0, FALSE), Fr("endtry", "pass", 0, glib) >>
     ELSE << >>)
    \o << Fr("msvc2", "", 0, glib) >>

\* manually_start_vpn_conn, the kill-switch part
ManualStartBody(p, glib) ==
    (IF p # "DISABLED"
     THEN << Fr("manage", "PRE_CONNECTION", 0, FALSE), Fr("endtry", "return_false", 0, glib) >>
     ELSE << >>)
    \o << Fr("msvc2", "", 0, glib) >>

ManuallyStartVpnConn ==
    /\ Running("msvc")
    /\ Continue(ManualStartBody(policy, top.f) \o rest)
    /\ SvFrame
    /\ UNCHANGED << daemon, failed_attempts, is_user_session_locked, suspend_lock,
                    shutdown_lock, timers, vpn, listeners, hist >>

\* manually_start_vpn_conn, from get_active_connection on (setup_protonvpn_conn)
ManuallyStartVpnConn2 ==
    /\ Running("msvc2")
    /\ IF ActiveConnection = "none"
       THEN /\ Continue(<< Fr("act_failed", "", 0, top.f) >> \o rest)
            /\ UNCHANGED << vpn, listeners, hist >>
       ELSE IF vpn = "absent"
       THEN /\ Continue(<< Fr("act_failed", "", 0, top.f) >> \o rest)
            /\ UNCHANGED << vpn, listeners, hist >>
       ELSE \/ /\ vpn' = "preparing"
               /\ listeners' = 1
               /\ hist' = [hist EXCEPT !.acts = @ + 1]
               /\ Continue(rest)
            \/ /\ Continue(<< Fr("act_failed", "", 0, top.f) >> \o rest)
               /\ hist' = [hist EXCEPT !.acts = @ + 1]
               /\ UNCHANGED << vpn, listeners >>
    /\ SvFrame
    /\ UNCHANGED << daemon, failed_attempts, is_user_session_locked, suspend_lock,
                    shutdown_lock, timers >>

\* vpn_activator, "if not self.manually_start_vpn_conn(...)"
ActivationFailed ==
    /\ Running("act_failed")
    /\ IF ~top.f
       THEN Continue(<< Fr("ovsc", "", FAILED, FALSE) >> \o rest) /\ UNCHANGED timers
       ELSE Continue(rest) /\ timers' = timers + 1
    /\ SvFrame
    /\ UNCHANGED << daemon, failed_attempts, is_user_session_locked, suspend_lock,
                    shutdown_lock, vpn, listeners, hist >>

\* connect_signals: the two inhibitor locks and the state of the session
ConnectSignals ==
    /\ Running("connect_signals")
    /\ \E ok1 \in BOOLEAN, ok2 \in BOOLEAN, locked \in BOOLEAN :
         /\ suspend_lock' = CreateLock(suspend_lock, ok1)
         /\ shutdown_lock' = CreateLock(shutdown_lock, ok2)
         /\ is_user_session_locked' = locked
         /\ UNCHANGED hist
    /\ daemon' = "running"
    /\ Continue(rest)
    /\ SvFrame
    /\ UNCHANGED << failed_attempts, timers, vpn, listeners >>

\* on_prepare_for_shutdown / on_prepare_for_suspend: "if not self.<lock>: return"
\* and os.close(self.<lock>)
ReleaseLock ==
    /\ Running("release")
    /\ LET lock == IF top.c = "suspend" THEN suspend_lock ELSE shutdown_lock IN
       IF lock = "none"
       THEN /\ hist' = [hist EXCEPT !.rel = TRUE]
            /\ UNCHANGED << suspend_lock, shutdown_lock >>
       ELSE \/ /\ IF top.c = "suspend"
                  THEN suspend_lock' = AfterClose(lock) /\ UNCHANGED shutdown_lock
                  ELSE shutdown_lock' = AfterClose(lock) /\ UNCHANGED suspend_lock
               /\ hist' = [hist EXCEPT !.rel = TRUE, !.closes = @ + 1]
            \/ /\ hist' = [hist EXCEPT !.rel = TRUE, !.failed = TRUE]
               /\ UNCHANGED << suspend_lock, shutdown_lock >>
    /\ Continue(rest)
    /\ SvFrame
    /\ UNCHANGED << daemon, failed_attempts, is_user_session_locked, timers, vpn,
                    listeners >>

SupervisorStep ==
    \/ OnVpnStateChanged \/ LoopQuit \/ VpnActivator \/ VpnActivator2
    \/ VpnSignalHandler \/ ManuallyStartVpnConn \/ ManuallyStartVpnConn2
    \/ ActivationFailed \/ ConnectSignals \/ ReleaseLock

SupervisorEvent ==
    \/ OnSessionLock \/ OnSessionUnlock \/ OnPrepareForShutdown
    \/ OnPrepareForSuspend \/ OnNetworkStateChanged \/ VpnEvent \/ TimerFire


----------------------------------------------------------------------------
(* The foreground client *)

SetKillswitchBodyMutant(p, active_vpn) ==
    (IF ~active_vpn /\ p = "DISABLED" THEN << Op("v6_remove") >> ELSE << >>)
    \o << Fr("set_killswitch", p, 0, FALSE), Fr("menu", p, 0, FALSE) >>

\* the killswitch setter of default_settings_backend.py
SetKillswitchBody(p, active_vpn) ==
    (IF ~active_vpn /\ p = "DISABLED" THEN << Op("v6_remove") >> ELSE << >>)
    \o << Fr("menu", p, 0, FALSE), Fr("set_killswitch", p, 0, FALSE) >>

FgSetKillswitch ==
    /\ \E p \in Policies :
         Begin("set_killswitch", NoEvt, SetKillswitchBody(p, vpn \in {"preparing", "active"}))
    /\ NmFrame
    /\ UNCHANGED << daemon, failed_attempts, is_user_session_locked, suspend_lock,
                    shutdown_lock, timers, vpn, listeners >>

\* settings_configurator.set_killswitch(killswitch_enum), the else clause
PersistKillswitch ==
    /\ Running("set_killswitch")
    /\ policy' = top.c
    /\ Continue(rest)
    /\ UNCHANGED << nm, cc, tracker, tracker6, handler, evt, base, max_attempts,
                    daemon, failed_attempts, is_user_session_locked, suspend_lock,
                    shutdown_lock, timers, vpn, listeners, hist, lvars >>

SetupBodyMutant(p) ==
    << Op("fg_disconnect"), Fr("endtry", "pass", 0, FALSE),
       Fr("v6_manage", "ENABLE", 0, FALSE),
       Fr("manage", "PRE_CONNECTION", 0, FALSE), Op("fg_add") >>

\* NetworkManagerClient.setup: disconnect in a try, _pre_setup_connection, add
SetupBody(p) ==
    << Op("fg_disconnect"), Fr("endtry", "pass", 0, FALSE),
       Fr("v6_manage", "ENABLE", 0, FALSE) >>
    \o (IF p # "DISABLED" THEN << Fr("manage", "PRE_CONNECTION", 0, FALSE) >> ELSE << >>)
    \o << Op("fg_add") >>

\* NetworkManagerClient.connect after a first state that is not IS_ACTIVE
RestoreBody(p) ==
    (IF p = "HARD" THEN << Fr("menu", "HARD", 0, FALSE) >>
                   ELSE << Fr("menu", "DISABLED", 0, FALSE), Op("v6_remove") >>)
    \o << Op("fg_disconnect"), Fr("endtry", "pass", 0, FALSE) >>

\* the client runs setup() and then connect()
FgConnect ==
    /\ Begin("connect", NoEvt, SetupBody(policy) \o << Op("fg_connect") >>)
    /\ NmFrame
    /\ UNCHANGED << daemon, failed_attempts, is_user_session_locked, suspend_lock,
                    shutdown_lock, timers, vpn, listeners >>

FgDisconnect ==
    /\ Begin("disconnect", NoEvt, << Op("fg_disconnect") >>)
    /\ NmFrame
    /\ UNCHANGED << daemon, failed_attempts, is_user_session_locked, suspend_lock,
                    shutdown_lock, timers, vpn, listeners >>

FgFrame == UNCHANGED << nm, cc, tracker, tracker6, handler, evt, policy, base,
                        max_attempts, failed_attempts, is_user_session_locked,
                        suspend_lock, shutdown_lock, hist, lvars >>

\* _post_disconnect
PostDisconnectBody(p) ==
    << Fr("v6_manage", "DISABLE", 0, FALSE) >>
    \o (IF p = "SOFT" THEN << Fr("manage", "DISABLE", 0, FALSE) >> ELSE << >>)

\* NetworkManagerClient.disconnect: ConnectionNotFound without a connection,
\* else the connection is removed and the reconnector service stopped
Disconnect ==
    /\ Running("fg_disconnect")
    /\ IF vpn = "absent"
       THEN Raise /\ UNCHANGED << vpn, daemon, timers, listeners >>
       ELSE /\ vpn' = "absent"
            /\ daemon' = "stopped"
            /\ timers' = 0
            /\ listeners' = 0
            /\ Continue(PostDisconnectBody(policy) \o rest)
    /\ FgFrame

\* _add_connection_async
AddConnection ==
    /\ Running("fg_add")
    /\ \/ vpn' = "inactive" /\ Continue(rest)
       \/ Raise /\ UNCHANGED vpn
    /\ FgFrame
    /\ UNCHANGED << daemon, timers, listeners >>

\* NetworkManagerClient.connect: start the connection and wait for the first
\* state reported by MonitorVPNConnectionStart
Connect ==
    /\ Running("fg_connect")
    /\ IF vpn = "absent"
       THEN Raise /\ UNCHANGED vpn
       ELSE \E first \in {IS_ACTIVE, FAILED} :
              /\ first = IS_ACTIVE => base
              /\ vpn' = VpnAfter(first)
              /\ Continue((IF first # IS_ACTIVE THEN RestoreBody(policy)
                                                ELSE << Op("fg_start_daemon") >>) \o rest)
    /\ FgFrame
    /\ UNCHANGED << daemon, timers, listeners >>

\* start_daemon_reconnector; the new process runs ProtonVPNReconnector.__init__:
\* vpn_activator() and then connect_signals()
StartDaemon ==
    /\ Running("fg_start_daemon")
    /\ IF daemon = "running"
       THEN /\ Continue(rest)
            /\ UNCHANGED << daemon, failed_attempts, is_user_session_locked,
                            suspend_lock, shutdown_lock, timers, listeners, handler, hist >>
       ELSE /\ daemon' = "starting"
            /\ failed_attempts' = 0
            /\ is_user_session_locked' = FALSE
            /\ suspend_lock' = "none"
            /\ shutdown_lock' = "none"
            /\ timers' = 0
            /\ listeners' = 0
            /\ handler' = "startup"
            /\ hist' = NoHist
            /\ Continue(<< Fr("act", "", 0, FALSE), Op("connect_signals") >> \o rest)
    /\ UNCHANGED << nm, cc, tracker, tracker6, evt, policy, base, max_attempts, vpn, lvars >>

ForegroundStep ==
    \/ PersistKillswitch \/ Disconnect \/ AddConnection \/ Connect \/ StartDaemon

ForegroundCall == FgSetKillswitch \/ FgConnect \/ FgDisconnect

----------------------------------------------------------------------------
(* The environment *)

\* the base network connection comes or goes
BaseChange ==
    /\ stack = << >>
    /\ base' = ~base
    /\ UNCHANGED << nm, cc, tracker, tracker6, stack, handler, evt, escaped, policy,
                    daemon, failed_attempts, is_user_session_locked, suspend_lock,
                    shutdown_lock, timers, vpn, listeners, max_attempts, hist, lvars >>

\* the handler returns to the event loop (or the client to the shell).  Both
\* trackers are re-read before every use, so what they hold between two
\* handlers is never looked at and is not kept; a daemon whose __init__
\* raised has not started.
HandlerEnd ==
    /\ Running("end")
    /\ stack' = << >>
    /\ handler' = "none"
    /\ evt' = NoEvt
    /\ escaped' = FALSE
    /\ hist' = NoHist
    /\ tracker' = [c \in {KS, RT} |-> Absent]
    /\ tracker6' = Absent
    /\ daemon' = IF daemon = "starting" THEN "stopped" ELSE daemon
    /\ UNCHANGED << nm, cc, policy, failed_attempts, is_user_session_locked,
                    suspend_lock, shutdown_lock, timers, vpn, base, listeners,
                    max_attempts, lvars >>

\* another tool (nmcli, the NetworkManager applet) changes a kill-switch
\* interface, at any moment
ExternalChange ==
    /\ \E c \in {KS, RT}, st \in IfaceStates :
         /\ nm[c] # st
         /\ nm' = [nm EXCEPT ![c] = st]
    /\ hist' = [hist EXCEPT !.ext = TRUE]
    /\ UNCHANGED << cc, tracker, tracker6, stack, handler, evt, escaped, policy,
                    daemon, failed_attempts, is_user_session_locked, suspend_lock,
                    shutdown_lock, timers, vpn, base, listeners, max_attempts, lvars >>

\* a client of KillSwitch calls one of its public methods: manage(action),
\* update_from_user_configuration_menu(policy), manage(DISABLE) twice, or
\* delete_all_connections() as the daemon does
KsActions == {"PRE_CONNECTION", "POST_CONNECTION", "SOFT", "DISABLE"}

KsCall ==
    /\ \/ \E a \in KsActions : Begin(a, NoEvt, << Fr("manage", a, 0, FALSE) >>)
       \/ \E p \in Policies : Begin("menu", NoEvt, << Fr("menu", p, 0, FALSE) >>)
       \/ Begin("disable_twice", NoEvt,
                << Fr("manage", "DISABLE", 0, FALSE), Fr("manage", "DISABLE", 0, FALSE) >>)
       \/ Begin("delete_all_connections", NoEvt,
                DeleteAll \o << Fr("ret", "DISABLE", 0, FALSE) >>)
    /\ NmFrame
    /\ UNCHANGED << daemon, failed_attempts, is_user_session_locked, suspend_lock,
                    shutdown_lock, timers, vpn, listeners >>

----------------------------------------------------------------------------
\* ServerList.__init__ (toplevel), no view, nothing called yet
NoSel == [op |-> "none", n |-> 0, a |-> "", res |-> "none", ids |-> << >>]
NoServerList ==
    /\ logicals = << >>
    /\ views = << >>
    /\ env = [vpn_tier |-> 0, secure_core |-> FALSE]
    /\ sel = NoSel

Init ==
    /\ nm = [c \in Conns |-> Absent]
    /\ cc \in [enabled : {TRUE}, available : BOOLEAN]
    /\ tracker = [c \in {KS, RT} |-> Absent]
    /\ tracker6 = Absent
    /\ stack = << >>
    /\ handler = "none"
    /\ evt = NoEvt
    /\ escaped = FALSE
    /\ policy = "DISABLED"
    /\ daemon = "stopped"
    /\ failed_attempts = 0
    /\ is_user_session_locked = FALSE
    /\ suspend_lock = "none"
    /\ shutdown_lock = "none"
    /\ timers = 0
    /\ vpn = "absent"
    /\ base \in BOOLEAN
    /\ listeners = 0
    /\ max_attempts \in {0, MaxAttempts}
    /\ hist = NoHist
    /\ NoServerList

Next ==
    \/ KillSwitchStep
    \/ IPv6Step
    \/ SupervisorStep
    \/ SupervisorEvent
    \/ ForegroundStep
    \/ ForegroundCall
    \/ BaseChange
    \/ HandlerEnd

Spec == Init /\ [][Next]_vars

\* The kill switch alone, driven through its public methods from any state
\* of the two interfaces, with another tool changing them at any moment.
InitKS ==
    /\ nm \in {n \in [Conns -> IfaceStates] : n[V6] = Absent}
    /\ cc \in [enabled : BOOLEAN, available : {TRUE}]
    /\ tracker = [c \in {KS, RT} |-> Absent]
    /\ tracker6 = Absent
    /\ stack = << >>
    /\ handler = "none"
    /\ evt = NoEvt
    /\ escaped = FALSE
    /\ policy = "DISABLED"
    /\ daemon = "stopped"
    /\ failed_attempts = 0
    /\ is_user_session_locked = FALSE
    /\ suspend_lock = "none"
    /\ shutdown_lock = "none"
    /\ timers = 0
    /\ vpn = "absent"
    /\ base = FALSE
    /\ listeners = 0
    /\ max_attempts = MaxAttempts
    /\ hist = NoHist
    /\ NoServerList

NextKS ==
    \/ KillSwitchStep
    \/ KsCall
    \/ ExternalChange
    \/ HandlerEnd

SpecKS == InitKS /\ [][NextKS]_vars

----------------------------------------------------------------------------
(* ServerList, LogicalServer (core/servers/list.py) *)

CODE_OK == 1000
FREE == 0
BASIC == 1
PLUS_VISIONARY == 2
NORMAL == 0
SECURE_CORE == 1
TOR == 2
P2P == 4

\* API data: identifiers, names and exit countries of the logical servers
AllIDs == << "a", "b", "c", "d" >>
NameOf(id) == CASE id = "a" -> "CH#1" [] id = "b" -> "US#1" [] id = "c" -> "CH#2"
                [] OTHER -> "US#2"
CountryOf(id) == CASE id \in {"a", "c"} -> "CH" [] OTHER -> "US"
IDs == { AllIDs[i] : i \in 1 .. MaxServers }
Scores == {5, 10}
\* tiers of the servers (ServerTierEnum) and of the users (UserTierEnum)
ServerTiers == {FREE, PLUS_VISIONARY}
UserTiers == {FREE, BASIC}

\* str.lower()
Lower(s) ==
    CASE s = "CH#1" -> "ch#1" [] s = "US#1" -> "us#1" [] s = "CH#2" -> "ch#2"
      [] s = "US#2" -> "us#2" [] s = "CH" -> "ch" [] s = "US" -> "us" [] OTHER -> s

\* the logical servers a catalog can hold, and the catalogs (the value of
\* "LogicalServers" in the API's answer): at most MaxServers logicals
LogicalsOver(tiers, phys, feats) ==
    { [ID |-> id, Name |-> NameOf(id), ExitCountry |-> CountryOf(id), Score |-> sc,
       Tier |-> t, Status |-> st, Servers |-> ph, Features |-> f] :
         id \in IDs, sc \in Scores, t \in tiers, st \in {0, 1}, ph \in phys, f \in feats }

CatalogsOver(tiers, phys, feats) ==
    UNION { { c \in [1 .. k -> LogicalsOver(tiers, phys, feats)] :
                \A i, j \in 1 .. k : i # j => c[i].ID # c[j].ID } : k \in 0 .. MaxServers }

\* LogicalServer.enabled
Enabled(s) == s.Status = 1 /\ \E i \in DOMAIN s.Servers : s.Servers[i] = 1

\* feature in LogicalServer.features (__unpack_bitmap_features)
HasFeature(s, f) == ((s.Features \div (IF f = 0 THEN 1 ELSE f)) % 2 # 0) \/ f = NORMAL

\* the two alternatives on secure core of the API's filters
SecureCoreMatch(s) ==
    \/ env.secure_core /\ HasFeature(s, SECURE_CORE)
    \/ ~env.secure_core /\ ~HasFeature(s, SECURE_CORE) /\ ~HasFeature(s, TOR)

\* the lambdas handed to filter(); a condition is the list of the lambdas that
\* filter() chained with `and`
Atom(k, a) == [k |-> k, a |-> a]
HoldsAtom(c, s) ==
    CASE c.k = "tier" -> s.Tier <= env.vpn_tier
      [] c.k = "enabled_tier" -> Enabled(s) /\ s.Tier <= env.vpn_tier
      [] c.k = "free" -> s.Tier = FREE
      [] c.k = "fastest" ->
            \/ s.Tier <= env.vpn_tier /\ env.secure_core /\ HasFeature(s, SECURE_CORE)
            \/ ~env.secure_core /\ ~HasFeature(s, SECURE_CORE) /\ ~HasFeature(s, TOR)
      [] c.k = "country" ->
            /\ s.Tier <= env.vpn_tier
            /\ Lower(s.ExitCountry) = Lower(c.a)
            /\ SecureCoreMatch(s)
      [] c.k = "feature" ->
            s.Tier <= env.vpn_tier /\ \A f \in c.a : HasFeature(s, f)
      [] c.k = "servername" ->
            s.Tier <= env.vpn_tier /\ Lower(s.Name) = Lower(c.a)
      [] OTHER -> FALSE

Holds(cond, s) == \A i \in DOMAIN cond : HoldsAtom(cond[i], s)

\* list.sort(key, reverse): stable, by the index itself without a key
KeyOf(data, key, i) == IF key = "score" THEN data[i].Score ELSE i
GoesBefore(data, key, rev, x, y) ==
    IF rev THEN KeyOf(data, key, x) > KeyOf(data, key, y)
           ELSE KeyOf(data, key, x) < KeyOf(data, key, y)

RECURSIVE SortIds(_, _, _, _)
SortIds(ids, key, rev, data) ==
    IF ids = << >> THEN << >>
    ELSE LET done == SortIds(SubSeq(ids, 1, Len(ids) - 1), key, rev, data)
             x == ids[Len(ids)]
             after == { i \in DOMAIN done : GoesBefore(data, key, rev, x, done[i]) }
             p == IF after = {} THEN Len(done) + 1
                  ELSE CHOOSE i \in after : \A j \in after : i <= j
         IN  SubSeq(done, 1, p - 1) \o << x >> \o SubSeq(done, p, Len(done))

\* refresh_indexes of one list: the indices (from 1 here) of the logicals
\* that pass the condition, in the order of enumerate, then _sort
FilterIds(cond, data) ==
    SelectSeq([i \in 1 .. Len(data) |-> i], LAMBDA i : Holds(cond, data[i]))

RefreshMutant(v, data) == v

RefreshIndexes(v, data) ==
    [v EXCEPT !.ids = SortIds(FilterIds(v.cond, data), v.key, v.rev, data)]

\* ServerList(toplevel, condition): __init__ ends with refresh_indexes
NewView(cond, data) ==
    RefreshIndexes([cond |-> cond, key |-> "none", rev |-> FALSE, ids |-> << >>], data)

\* ServerList.sort(key, reverse): sorts the indices the list holds
SortView(v, key, rev, data) ==
    [v EXCEPT !.key = key, !.rev = rev, !.ids = SortIds(v.ids, key, rev, data)]

\* refresh_indexes of the toplevel list: every view in _views
RefreshViews(data) == [i \in DOMAIN views |-> RefreshIndexes(views[i], data)]

\* _logicals_by_id[id] of the toplevel list: the last logical with that ID
ById(data, id) ==
    LET at == { i \in DOMAIN data : data[i].ID = id }
    IN  IF at = {} THEN 0 ELSE CHOOSE i \in at : \A j \in at : j <= i

\* one entry of update_load_data: Score and Status are optional keys
Missing == -1
Updates ==
    [ID : IDs, Score : Scores \cup {Missing}, Status : {0, 1, Missing}]

ApplyUpdate(data, u) ==
    LET i == ById(data, u.ID)
    IN  IF i = 0 THEN data
        ELSE [data EXCEPT
                ![i].Score = IF u.Score = Missing THEN @ ELSE u.Score,
                ![i].Status = IF u.Status = Missing
                              THEN (IF Enabled(data[i]) THEN 1 ELSE 0)
                              ELSE u.Status]

RECURSIVE ApplyUpdates(_, _)
ApplyUpdates(data, us) ==
    IF us = << >> THEN data ELSE ApplyUpdates(ApplyUpdate(data, Head(us)), Tail(us))

Called(op, n, a, res, ids) == [op |-> op, n |-> n, a |-> a, res |-> res, ids |-> ids]

ListFrame == UNCHANGED << nm, cc, tracker, tracker6, stack, handler, evt, escaped,
                          policy, daemon, failed_attempts, is_user_session_locked,
                          suspend_lock, shutdown_lock, timers, vpn, base, listeners,
                          max_attempts, hist, env >>

\* what the views are sorted and filtered on
ViewCatalogs == CatalogsOver({FREE}, { << 1 >> }, {NORMAL})

JsonLoads ==
    /\ \E d \in ViewCatalogs :
         /\ logicals' = d
         /\ views' = RefreshViews(d)
    /\ sel' = Called("json_loads", 0, "", "ok", << >>)
    /\ ListFrame

UpdateLogicalData ==
    /\ \E code \in {CODE_OK, CODE_OK + 1} :
         IF code # CODE_OK
         THEN /\ sel' = Called("update_logical_data", 0, "", "ValueError", << >>)
              /\ UNCHANGED << logicals, views >>
         ELSE \E d \in ViewCatalogs :
                /\ logicals' = d
                /\ views' = RefreshViews(d)
                /\ sel' = Called("update_logical_data", 0, "", "ok", << >>)
    /\ ListFrame

\* update_load_data(data); `seen` says whether sel keeps the entries of the
\* answer for the properties to look at
UpdateLoad(seen) ==
    /\ \E code \in {CODE_OK, CODE_OK + 1} :
         IF code # CODE_OK
         THEN /\ sel' = Called("update_load_data", 0, "", "ValueError", << >>)
              /\ UNCHANGED << logicals, views >>
         ELSE \E k \in 0 .. MaxUpdates : \E us \in [1 .. k -> Updates] :
                LET d == ApplyUpdates(logicals, us)
                IN  /\ logicals' = d
                    /\ views' = RefreshViews(d)
                    /\ sel' = Called("update_load_data", 0, "", "ok",
                                     IF seen THEN us ELSE << >>)
    /\ ListFrame

UpdateLoadData == UpdateLoad(FALSE)
UpdateLoadDataSeen == UpdateLoad(TRUE)

\* toplevel.filter(condition), kept by the caller
ViewConds == { << Atom("tier", "") >>, << Atom("enabled_tier", "") >> }

Filter ==
    /\ Len(views) < MaxViews
    /\ \E c \in ViewConds : views' = Append(views, NewView(c, logicals))
    /\ sel' = Called("filter", 0, "", "ok", << >>)
    /\ UNCHANGED logicals
    /\ ListFrame

ChainMutant(c1, c2) == c2

\* view.filter(condition): "lambda x: self._condition(x) and condition(x)"
Chain(c1, c2) == c1 \o c2

\* view.filter(condition) on a view: the new list is a view of the toplevel
FilterView ==
    /\ Len(views) < MaxViews
    /\ \E i \in DOMAIN views, country \in {"CH"} :
         /\ Len(views[i].cond) < MaxChain
         /\ views' = Append(views, NewView(Chain(views[i].cond,
                                                 << Atom("country", country) >>), logicals))
         /\ sel' = Called("filter_view", i, country, "ok", << >>)
    /\ UNCHANGED logicals
    /\ ListFrame

\* view.sort(key, reverse)
Sort ==
    /\ \E i \in DOMAIN views, key \in {"none", "score"}, rev \in BOOLEAN :
         views' = [views EXCEPT ![i] = SortView(views[i], key, rev, logicals)]
    /\ sel' = Called("sort", 0, "", "ok", << >>)
    /\ UNCHANGED logicals
    /\ ListFrame

\* the caller drops a view: the WeakSet _views forgets it
DropView ==
    /\ \E i \in DOMAIN views :
         views' = SubSeq(views, 1, i - 1) \o SubSeq(views, i + 1, Len(views))
    /\ sel' = Called("del", 0, "", "ok", << >>)
    /\ UNCHANGED logicals
    /\ ListFrame

DaemonIdle ==
    /\ nm = [c \in Conns |-> Absent]
    /\ cc = [enabled |-> TRUE, available |-> TRUE]
    /\ tracker = [c \in {KS, RT} |-> Absent]
    /\ tracker6 = Absent
    /\ stack = << >>
    /\ handler = "none"
    /\ evt = NoEvt
    /\ escaped = FALSE
    /\ policy = "DISABLED"
    /\ daemon = "stopped"
    /\ failed_attempts = 0
    /\ is_user_session_locked = FALSE
    /\ suspend_lock = "none"
    /\ shutdown_lock = "none"
    /\ timers = 0
    /\ vpn = "absent"
    /\ base = FALSE
    /\ listeners = 0
    /\ max_attempts = MaxAttempts
    /\ hist = NoHist

\* The toplevel server list and its views under reloads and load updates
InitList ==
    /\ DaemonIdle
    /\ logicals = << >>
    /\ views = << >>
    /\ env \in [vpn_tier : {FREE}, secure_core : {FALSE}]
    /\ sel = NoSel

NextList ==
    \/ JsonLoads
    \/ UpdateLogicalData
    \/ UpdateLoadData
    \/ Filter
    \/ FilterView
    \/ Sort
    \/ DropView

SpecList == InitList /\ [][NextList]_vars

\* list[:n]
SliceMutant(s, n) == s

Slice(s, n) ==
    IF n >= 0 THEN SubSeq(s, 1, IF n < Len(s) THEN n ELSE Len(s))
    ELSE SubSeq(s, 1, IF Len(s) + n > 0 THEN Len(s) + n ELSE 0)

Raised(e) == [res |-> e, ids |-> << >>]
Returned(ids) == [res |-> "ok", ids |-> ids]

FastestServersMutant(c, n) ==
    LET v == SortView(NewView(c, logicals), "score", FALSE, logicals)
    IN  IF Len(v.ids) = 0 THEN Raised("EmptyServerListError")
        ELSE Returned(Slice(v.ids, n))

\* get_fastest_servers(n) on the list of condition c (<< >>: the toplevel)
FastestServers(c, n) ==
    LET v == SortView(NewView(c \o << Atom("enabled_tier", "") >>, logicals),
                      "score", FALSE, logicals)
    IN  IF Len(v.ids) = 0 THEN Raised("EmptyServerListError")
        ELSE Returned(Slice(v.ids, n))

\* get_fastest_server: get_fastest_servers(1)[0]
FastestServer(c) ==
    LET r == FastestServers(c, 1)
    IN  IF r.res = "ok" THEN Returned(<< r.ids[1] >>) ELSE r

\* get_random_server: random.randint(0, len - 1) raises ValueError on an
\* empty range
RandomServers(c) ==
    LET v == NewView(c \o << Atom("tier", "") >>, logicals)
    IN  IF Len(v.ids) = 0 THEN { Raised("ValueError") }
        ELSE { Returned(<< v.ids[i] >>) : i \in DOMAIN v.ids }

\* try: ... except EmptyServerListError: raise <error of the API>
Surfaced(r, e) == IF r.res = "EmptyServerListError" THEN Raised(e) ELSE r

FeatureOf(connection_type) ==
    CASE connection_type = "SECURE_CORE" -> {SECURE_CORE}
      [] connection_type = "PEER2PEER" -> {P2P}
      [] connection_type = "TOR" -> {TOR}
      [] OTHER -> {}

SelFrame == ListFrame /\ UNCHANGED << logicals, views >>
Select(op, n, a, r) == sel' = Called(op, n, a, r.res, r.ids)

GetFastestServers ==
    /\ \E n \in 0 .. MaxN : Select("get_fastest_servers", n, "", FastestServers(<< >>, n))
    /\ SelFrame

GetFastestServer ==
    /\ Select("get_fastest_server", 0, "", FastestServer(<< >>))
    /\ SelFrame

GetRandomServer ==
    /\ \E r \in RandomServers(<< >>) : Select("get_random_server", 0, "", r)
    /\ SelFrame

\* config_for_fastest_free_server: config_for_fastest_free_servers(1)[0]
ConfigForFastestFreeServer ==
    /\ LET r == Surfaced(FastestServers(<< Atom("free", "") >>, 1), "FastestServerNotFound")
       IN  Select("config_for_fastest_free_server", 0, "",
                  IF r.res = "ok" THEN Returned(<< r.ids[1] >>) ELSE r)
    /\ SelFrame

ConfigForFastestServer ==
    /\ Select("config_for_fastest_server", 0, "",
              Surfaced(FastestServer(<< Atom("fastest", "") >>), "FastestServerNotFound"))
    /\ SelFrame

ConfigForFastestServerInCountry ==
    /\ \E country_code \in {"ch", "US"} :
         Select("config_for_fastest_server_in_country", 0, country_code,
                Surfaced(FastestServer(<< Atom("country", country_code) >>),
                         "FastestServerInCountryNotFound"))
    /\ SelFrame

ConfigForFastestServerWithFeature ==
    /\ \E features \in {"SECURE_CORE", "PEER2PEER", "TOR"} :
         Select("config_for_fastest_server_with_feature", 0, features,
                Surfaced(FastestServer(<< Atom("feature", FeatureOf(features)) >>),
                         "FeatureServerNotFound"))
    /\ SelFrame

ConfigForServerWithServername ==
    /\ \E servername \in {"ch#1", "US#1"} :
         Select("config_for_server_with_servername", 0, servername,
                Surfaced(FastestServer(<< Atom("servername", servername) >>),
                         "ServernameServerNotFound"))
    /\ SelFrame

ConfigForRandomServer ==
    /\ \E r \in RandomServers(<< >>) :
         Select("config_for_random_server", 0, "", Surfaced(r, "RandomServerNotFound"))
    /\ SelFrame

\* The selection of a server, on any catalog and for any user
SelCatalogs == CatalogsOver(ServerTiers, { << 0 >>, << 1 >> }, {NORMAL, SECURE_CORE, TOR + P2P})

InitSel ==
    /\ DaemonIdle
    /\ logicals \in SelCatalogs
    /\ views = << >>
    /\ env \in [vpn_tier : UserTiers, secure_core : BOOLEAN]
    /\ sel = NoSel

NextSel ==
    \/ GetFastestServers
    \/ GetFastestServer
    \/ GetRandomServer
    \/ ConfigForFastestFreeServer
    \/ ConfigForFastestServer
    \/ ConfigForFastestServerInCountry
    \/ ConfigForFastestServerWithFeature
    \/ ConfigForServerWithServername
    \/ ConfigForRandomServer

SpecSel == InitSel /\ [][NextSel]_vars

----------------------------------------------------------------------------
(* Properties *)

BothActive == nm[KS].a /\ nm[RT].a
Armed == nm[KS].a \/ nm[RT].a
BothAbsent == nm[KS] = Absent /\ nm[RT] = Absent

LeavingHard == \E i \in DOMAIN stack : stack[i].op = "set_killswitch" /\ stack[i].c # "HARD"

\* C2: under policy Hard, once one of the two interfaces is active, no step
\* of an arming, of set-mode(Hard), of the connect-failure restore or of a
\* supervisor handler leaves a state in which neither is active.
C2_HardStaysArmed ==
    [][(policy = "HARD" /\ policy' = "HARD" /\ ~LeavingHard /\ Armed) => Armed']_vars

C4_DisableIdempotent ==
    /\ (Running("ret") /\ top.c = "DISABLE" /\ ~hist.ext) => BothAbsent
    /\ (handler = "disable_twice" /\ hist.disabled /\ ~hist.ext)
       => (~escaped /\ ~hist.failed /\ hist.dels = 0 /\ BothAbsent)

\* the second of two disable calls returns
C4_Witness ==
    /\ handler = "disable_twice" /\ Running("ret") /\ Len(stack) = 2
    /\ hist.disabled /\ ~hist.ext

\* C5: on a Failed, or a Disconnected that the user did not ask for, handled
\* while the session is unlocked: if failed_attempts < max_attempts or
\* max_attempts = 0 the counter grows by 1 and one retry is scheduled,
\* otherwise the counter and the retries are unchanged.
C5_ReconnectRule ==
    [][(/\ Running("ovsc")
        /\ ~is_user_session_locked
        /\ (top.n = FAILED \/ (top.n = DISCONNECTED /\ ~top.f)))
       => IF max_attempts = 0 \/ failed_attempts < max_attempts
          THEN failed_attempts' = failed_attempts + 1 /\ timers' = timers + 1
          ELSE failed_attempts' = failed_attempts /\ timers' = timers]_vars

\* a Failed transition arrives when the counter has reached max_attempts
C5_Witness ==
    /\ Running("ovsc") /\ top.n = FAILED /\ ~is_user_session_locked
    /\ max_attempts = MaxAttempts /\ failed_attempts = max_attempts

\* C6: while the session is locked, no step of the handling of a tunnel
\* event or of a fired retry timer changes failed_attempts, the kill-switch
\* or IPv6 interfaces, or the state of the loop; none schedules a retry or
\* requests a tunnel activation.
C6_LockedSuppresses ==
    [][(/\ daemon = "running"
        /\ is_user_session_locked
        /\ handler' \in {"vpn_event", "timer"})
       => (/\ failed_attempts' = failed_attempts
           /\ nm' = nm
           /\ timers' <= timers
           /\ daemon' = daemon
           /\ is_user_session_locked'
           /\ hist'.acts = 0 /\ hist'.sched = 0)]_vars

\* a Failed event is handled while locked with the counter at 1
C6_Witness ==
    /\ daemon = "running" /\ handler = "vpn_event" /\ Running("ovsc") /\ top.n = FAILED
    /\ is_user_session_locked /\ failed_attempts = 1

\* C7: no error leaves on_vpn_state_changed, vpn_activator or
\* manually_start_vpn_conn, whichever event of the running daemon called it.
C7_NoErrorEscapes ==
    (daemon = "running" /\ handler \in {"vpn_event", "timer", "unlock", "network"})
    => ~escaped

\* C8: every execution of on_prepare_for_shutdown reaches the release of the
\* shutdown inhibitor lock.
C8_ShutdownReachesRelease ==
    (handler = "shutdown" /\ Running("end")) => hist.rel

\* C9: in a running daemon an inhibitor lock that is not held is never
\* acquired (so a released lock is never re-acquired); a successful close
\* is made on a held lock and leaves the attribute None, so that no later
\* signal closes it again; no handler closes more than once.
C9_ReleasedOnce ==
    [][daemon = "running"
       => (/\ suspend_lock = "none" => suspend_lock' = "none"
           /\ shutdown_lock = "none" => shutdown_lock' = "none"
           /\ hist'.closes <= 1
           /\ hist'.closes = hist.closes + 1
              => (/\ Running("release")
                  /\ IF top.c = "suspend"
                     THEN suspend_lock = "held" /\ suspend_lock' = "none"
                     ELSE shutdown_lock = "held" /\ shutdown_lock' = "none"))]_vars

\* PrepareForSleep has closed the suspend lock
C9_Witness ==
    /\ daemon = "running" /\ handler = "suspend" /\ Running("end")
    /\ hist.closes = 1 /\ suspend_lock = "none"

PostPending == \E i \in DOMAIN stack : stack[i].op = "manage" /\ stack[i].c = "POST_CONNECTION"
InV6 == Running("v6_manage") \/ Running("v6_add") \/ Running("v6_remove") \/ Running("v6_deactivate")

\* C11: on_vpn_state_changed(IS_ACTIVE) while unlocked resets failed_attempts
\* to 0 and goes on with the IPv6 guard enable, followed by arm-after-connect
\* if and only if the policy is not Disabled; no step of the IPv6 guard,
\* failing or not, takes the pending arm-after-connect away or changes the
\* counter.
C11_ActiveTransition ==
    [][/\ (Running("ovsc") /\ top.n = IS_ACTIVE /\ ~is_user_session_locked)
          => (/\ failed_attempts' = 0
              /\ stack' # << >>
              /\ Head(stack').op = "v6_manage" /\ Head(stack').c = "ENABLE"
              /\ (policy # "DISABLED") <=> PostPending')
       /\ (handler = "vpn_event" /\ InV6 /\ PostPending)
          => (PostPending' /\ failed_attempts' = failed_attempts)]_vars

\* the IPv6 guard has failed in the handling of IS_ACTIVE and arm-after-connect
\* is the statement that runs
C11_Witness ==
    /\ handler = "vpn_event" /\ evt[1] = IS_ACTIVE /\ ~is_user_session_locked
    /\ hist.failed /\ failed_attempts = 0
    /\ Running("manage") /\ top.c = "POST_CONNECTION"

\* a view built from scratch on the current data: the indices of exactly the
\* logicals that pass the condition, each once, in the order of the key
\* (descending when reversed), logicals of equal key in catalog order
FromScratch(ids, v, data) ==
    /\ \A i \in DOMAIN ids : ids[i] \in DOMAIN data /\ Holds(v.cond, data[ids[i]])
    /\ \A d \in DOMAIN data : Holds(v.cond, data[d]) => \E i \in DOMAIN ids : ids[i] = d
    /\ \A i, j \in DOMAIN ids : i < j =>
         /\ ids[i] # ids[j]
         /\ ~GoesBefore(data, v.key, v.rev, ids[j], ids[i])
         /\ (KeyOf(data, v.key, ids[i]) = KeyOf(data, v.key, ids[j]) => ids[i] < ids[j])

\* C12: after any sequence of json_loads, update_logical_data and
\* update_load_data on the toplevel list, every live view holds exactly
\* sort(filter(condition, current data), key).
C12_ViewsMatchData ==
    (sel.op \in {"json_loads", "update_logical_data", "update_load_data"} /\ sel.res = "ok")
    => \A i \in DOMAIN views : FromScratch(views[i].ids, views[i], logicals)

\* an update of the loads has reordered a view sorted by score
C12_Witness ==
    /\ sel.op = "update_load_data" /\ sel.res = "ok"
    /\ \E i \in DOMAIN views :
         /\ views[i].key = "score" /\ ~views[i].rev
         /\ Len(views[i].ids) = 2 /\ views[i].ids[1] > views[i].ids[2]

\* the logicals get_fastest_servers is to choose from
Match == { i \in DOMAIN logicals : Enabled(logicals[i]) /\ logicals[i].Tier <= env.vpn_tier }

\* C13: get_fastest_servers(n) returns min(n, matchCount) of the enabled
\* servers of tier <= user tier, the ones of lowest score in ascending order
\* of score, and raises EmptyServerListError when no server matches.
C13_FastestServers ==
    sel.op = "get_fastest_servers" =>
      IF Match = {} THEN sel.res = "EmptyServerListError"
      ELSE /\ sel.res = "ok"
           /\ Len(sel.ids) = (IF sel.n < Cardinality(Match) THEN sel.n ELSE Cardinality(Match))
           /\ \A i \in DOMAIN sel.ids : sel.ids[i] \in Match
           /\ \A i, j \in DOMAIN sel.ids : i < j =>
                /\ sel.ids[i] # sel.ids[j]
                /\ logicals[sel.ids[i]].Score <= logicals[sel.ids[j]].Score
           /\ \A i \in DOMAIN sel.ids : \A m \in Match :
                (\A j \in DOMAIN sel.ids : sel.ids[j] # m)
                => logicals[sel.ids[i]].Score <= logicals[m].Score

\* the example: A (tier 0, score 10, enabled) before B (tier 0, score 5,
\* enabled) in the catalog, get_fastest_servers(2) has returned [B, A]
C13_Witness ==
    /\ sel.op = "get_fastest_servers" /\ sel.n = 2 /\ sel.res = "ok"
    /\ Len(logicals) = 2 /\ sel.ids = << 2, 1 >>
    /\ logicals[1].Score = 10 /\ logicals[2].Score = 5
    /\ logicals[1].Tier = 0 /\ logicals[2].Tier = 0

\* C18: every server a selection operation returns (get_fastest_server(s),
\* get_random_server, and the selections of the API by name, country, feature
\* and fastest with or without secure core) has tier <= the user's tier.
C18_TierBound ==
    sel.res = "ok" => \A i \in DOMAIN sel.ids : logicals[sel.ids[i]].Tier <= env.vpn_tier

\* fastest without secure core has returned a server although an enabled
\* server of a tier above the user's, which the filter of the API lets
\* through, has a lower score
C18_Witness ==
    /\ sel.op = "config_for_fastest_server" /\ ~env.secure_core /\ sel.res = "ok"
    /\ \E m \in DOMAIN logicals :
         /\ logicals[m].Tier > env.vpn_tier /\ Enabled(logicals[m])
         /\ HoldsAtom(Atom("fastest", ""), logicals[m])
         /\ logicals[m].Score < logicals[sel.ids[1]].Score

EmptyFamily ==
    {"EmptyServerListError", "FastestServerNotFound", "FastestServerInCountryNotFound",
     "FeatureServerNotFound", "ServernameServerNotFound", "RandomServerNotFound"}

\* C19: a selection operation that finds no candidate raises an error of the
\* EmptyServerListError family; the random selection on a catalog without a
\* server of tier <= user tier raises EmptyServerListError, surfaced by the
\* API as RandomServerNotFound, and no other kind of error.
C19_EmptyRaisesEmptyFamily ==
    /\ (sel.op # "none" /\ sel.res # "ok") => sel.res \in EmptyFamily
    /\ (\A i \in DOMAIN logicals : logicals[i].Tier > env.vpn_tier) =>
         /\ sel.op = "get_random_server" => sel.res = "EmptyServerListError"
         /\ sel.op = "config_for_random_server" => sel.res = "RandomServerNotFound"

\* C14: update_from_user_configuration_menu(HARD), started from any state of
\* the two interfaces and returning without error, ends with the routed
\* interface absent and the blocking interface existing and active.
C14_HardEndsBlocking ==
    (Running("ret") /\ top.c = "MENU_HARD" /\ ~hist.ext)
    => (nm[RT] = Absent /\ nm[KS] = Up)

\* C15: an interface of the kill switch or of the IPv6 guard is created,
\* activated, deactivated or deleted only after the connectivity check of
\* NetworkManager was found or made disabled, whatever the entry point
\* (manage, update_from_user_configuration_menu, or the direct
\* delete_all_connections and remove_leak_protection of the daemon): no
\* interface changes while the check is enabled.
C15_CheckDisabledFirst == [][(nm' # nm /\ stack' # stack) => ~cc.enabled]_vars

\* C16: manage(ENABLE) of the IPv6 guard tears the existing guard connection
\* down before it creates one, so that exactly one exists after an enable
\* that did not fail: the nmcli add runs only when no guard connection
\* exists, and what it creates exists and is active.
C16_EnableRecreates ==
    [][Running("v6_add") => (~nm[V6].e /\ (nm'[V6] # nm[V6] => nm'[V6] = Up))]_vars

\* C17: manage(DISABLE) of the IPv6 guard deletes the guard connection when
\* it exists; when the delete command fails it does not raise but falls back
\* to deactivating the connection, which is then no longer active (or the
\* deactivation itself raises); when the guard is absent it issues no
\* command and raises nothing.
C17_DisableFallsBack ==
    [][/\ (Running("v6_remove") /\ nm[V6].e)
          => \/ nm'[V6] = Absent /\ stack' = Norm(rest)
             \/ /\ nm' = nm /\ ~escaped'
                /\ stack' = Norm(<< Op("v6_deactivate") >> \o rest)
       /\ (Running("v6_remove") /\ ~nm[V6].e)
          => (nm' = nm /\ hist' = hist /\ stack' = Norm(rest) /\ ~escaped')
       /\ (Running("v6_deactivate") /\ nm[V6].a)
          => (~nm'[V6].a \/ stack' # Norm(rest) \/ escaped')]_vars

\* vpn_activator calls the handler is still to make
Attempts(s) == Cardinality({ i \in DOMAIN s : s[i].op = "act" })

\* C20: on_session_unlock sets is_user_session_locked to False and calls
\* vpn_activator once in the same handler; on_network_state_changed calls
\* vpn_activator if and only if the state is 70, and with any other state
\* it changes nothing and returns.
C20_UnlockAndNetwork ==
    [][/\ (stack = << >> /\ handler' = "unlock")
          => (~is_user_session_locked' /\ Attempts(stack') = 1 /\ Head(stack').op = "act")
       /\ (stack = << >> /\ handler' = "network")
          => /\ (evt'[1] = 70) <=> (Attempts(stack') = 1)
             /\ Attempts(stack') <= 1
             /\ evt'[1] # 70 =>
                  /\ stack' = << Op("end") >>
                  /\ UNCHANGED << nm, cc, policy, daemon, failed_attempts,
                                  is_user_session_locked, suspend_lock, shutdown_lock,
                                  timers, vpn, base, listeners, max_attempts >>]_vars

\* the network handler got a state other than 70 while the session is
\* unlocked and the tunnel is down, and returns
C20_Witness ==
    /\ handler = "network" /\ evt[1] = NM_STATE_CONNECTED_SITE /\ Running("end")
    /\ ~is_user_session_locked /\ vpn # "active" /\ daemon = "running"

\* C21: manage(PRE_CONNECTION), started in any state of the two interfaces,
\* no other tool changing them and no command failing, does not raise: it
\* reaches a happy path before the bound of 5 attempts is exhausted.
C21_PreConverges ==
    (handler = "PRE_CONNECTION" /\ ~hist.ext /\ ~hist.failed)
    => (~escaped /\ ~hist.exhausted /\ hist.conv < MAX_KS_ATTEMPTS)


\* C22: manage(POST_CONNECTION), no other tool changing the interfaces and no
\* command failing, fails only by exhausting the bound of 5 attempts: it never
\* raises another error on an earlier attempt.
C22_PostFailsOnlyByExhaustion ==
    (handler = "POST_CONNECTION" /\ ~hist.ext /\ ~hist.failed)
    => (~hist.generic /\ (escaped => hist.exhausted))


\* C23: when manage(PRE_CONNECTION) returns without error the routed interface
\* is active and the blocking interface is not; when manage(POST_CONNECTION)
\* returns without error the blocking interface is active and the routed one
\* is not (no other tool changing the interfaces meanwhile).
C23_ReturnStates ==
    (Running("ret") /\ ~hist.ext)
    => /\ top.c = "PRE_CONNECTION" => (nm[RT].a /\ ~nm[KS].a)
       /\ top.c = "POST_CONNECTION" => (nm[KS].a /\ ~nm[RT].a)


\* C24: a retry timer is one-shot: the activation attempt it runs, whatever it
\* finds, leaves no timer scheduled again, so the number of pending retries
\* never grows while a timer-driven attempt runs.
C24_RetryOneShot ==
    [][handler = "timer" => timers' <= timers]_vars


\* C25: an activation attempt started by startup, unlock or a network change
\* while unlocked and without an active base connection makes one Failed
\* transition at most (one retry scheduled at most), requests no tunnel
\* activation and runs no kill-switch operation.
C25_NoBaseOneFailure ==
    (handler \in {"startup", "unlock", "network"} /\ ~is_user_session_locked
        /\ ActiveConnection = "none")
    => /\ hist.sched <= 1
       /\ hist.acts = 0
       /\ \A i \in DOMAIN stack : stack[i].op # "manage"


DaemonAttempts == {"startup", "unlock", "network", "timer", "vpn_event"}

\* C26: an activation attempt of the daemon requests a new tunnel activation
\* only when no tunnel connection is active or being prepared.
C26_NoSecondActivation ==
    [][(handler \in DaemonAttempts /\ hist'.acts > hist.acts)
       => vpn \notin {"preparing", "active"}]_vars


\* C27: with a policy other than Disabled, the daemon requests a tunnel
\* activation and the client adds the tunnel connection only after
\* manage(PRE_CONNECTION) has returned without error in the same operation;
\* after a failed arming no request follows.
C27_ArmedBeforeActivation ==
    [][(policy # "DISABLED" /\ (hist'.acts > hist.acts \/ Running("fg_add")))
       => hist.armed]_vars

\* the daemon requests a tunnel activation under a policy other than Disabled
C27_Witness ==
    /\ policy # "DISABLED" /\ handler \in DaemonAttempts
    /\ hist.acts > 0 /\ hist.armed


\* C28: in a running daemon PrepareForSleep sets is_user_session_locked and
\* reaches the release of the suspend lock, which is gone afterwards unless
\* os.close failed; a locked session becomes unlocked only by the Unlock
\* event; and as long as it stays locked no handler of a timer, network,
\* tunnel, lock or sleep event changes failed_attempts or a kill-switch or
\* IPv6 interface, schedules a retry or requests a tunnel activation.
C28_SleepLocksUntilUnlock ==
    [][daemon = "running"
       => (/\ handler' = "suspend" => is_user_session_locked'
           /\ (handler = "suspend" /\ Running("end"))
              => (hist.rel /\ (~hist.failed => suspend_lock = "none"))
           /\ (is_user_session_locked /\ ~is_user_session_locked' /\ daemon' = "running")
              => (stack = << >> /\ handler' = "unlock")
           /\ (/\ is_user_session_locked /\ is_user_session_locked'
               /\ handler' \in {"timer", "network", "vpn_event", "lock", "suspend"})
              => (/\ failed_attempts' = failed_attempts
                  /\ timers' <= timers
                  /\ nm' = nm
                  /\ hist'.acts = 0 /\ hist'.sched = 0))]_vars

\* PrepareForSleep has run to its end with a retry still pending
C28_Witness ==
    /\ daemon = "running" /\ handler = "suspend" /\ Running("end")
    /\ is_user_session_locked /\ hist.rel /\ timers > 0


RetryPending == stack # << >> /\ top.op = "create_rt" /\ top.f

\* C29: one call of create_routed_connection issues 2 nmcli create commands
\* at most.  The first command ends in the interface created, in the error
\* raised, or in one second command with try_route_addrs set; whatever the
\* second command returns is final: the interface is created or the error
\* raised, and no third command follows.
C29_OneFallbackRetry ==
    [][(Running("create_rt") /\ stack' # stack)
       => (/\ hist'.cmds <= 2
           /\ RetryPending' => ~top.f
           /\ nm[RT].e => (nm' = nm /\ hist'.cmds = hist.cmds * (IF top.f THEN 1 ELSE 0))
           /\ (~top.f /\ ~nm[RT].e)
              => (/\ hist'.cmds = 1
                  /\ \/ nm'[RT] = Up /\ stack' = Norm(rest)
                     \/ nm' = nm /\ RetryPending' /\ Tail(stack') = Norm(rest)
                     \/ nm' = nm /\ hist'.failed /\ stack' = AfterRaise(rest))
           /\ (top.f /\ ~nm[RT].e)
              => (/\ hist'.cmds = 2
                  /\ \/ nm'[RT] = Up /\ stack' = Norm(rest)
                     \/ nm' = nm /\ hist'.failed /\ stack' = AfterRaise(rest)))]_vars

\* the second create command of one call has failed
C29_Witness ==
    hist.cmds = 2 /\ hist.failed /\ ~nm[RT].e /\ handler = "PRE_CONNECTION"


\* the interface a create or delete statement is about
Subject == IF top.op = "create_ks" THEN KS ELSE IF top.op = "create_rt" THEN RT ELSE top.c
\* the statement issues its nmcli command
Issues == IF top.op = "delete" THEN nm[Subject].e ELSE ~nm[Subject].e

IdSet(v) == { v.ids[k] : k \in DOMAIN v.ids }

\* C31: the list returned by view.filter(p2) holds exactly the logicals of
\* the toplevel list that pass the condition of the view and p2; it is a view
\* of the toplevel list, so that after every later reload or load update it
\* holds exactly the logicals of the new data that pass both.
C31_ChainedFilter ==
    /\ sel.op = "filter_view"
       => IdSet(views[Len(views)])
            = { d \in DOMAIN logicals :
                  /\ Holds(views[sel.n].cond, logicals[d])
                  /\ HoldsAtom(Atom("country", sel.a), logicals[d]) }
    /\ \A i \in DOMAIN views :
         Len(views[i].cond) > 1
         => IdSet(views[i]) = { d \in DOMAIN logicals : Holds(views[i].cond, logicals[d]) }

\* a reload has changed what a chained view holds: a server that passes the
\* first condition only is left out
C31_Witness ==
    /\ sel.op = "json_loads"
    /\ \E i \in DOMAIN views :
         /\ Len(views[i].cond) = 2 /\ views[i].cond[1].k = "enabled_tier"
         /\ Len(views[i].ids) = 1
         /\ \E d \in DOMAIN logicals :
              /\ HoldsAtom(views[i].cond[1], logicals[d])
              /\ ~HoldsAtom(views[i].cond[2], logicals[d])


-----------------------------------------------------------------------------
(* ServerList.match_server_domain and update_load_data on catalogs whose
   physical servers carry their exit IP and domain *)

\* API data: exit IPs and domains of the physical servers
ExitIPs == {"10.0.0.1", "10.0.0.2"}
Domains == {"one.example", "two.example", "three.example"}

\* the values of "Servers" of one logical: 1 .. MaxServers physical servers
PhysicalsOver(status) ==
    UNION { [1 .. k -> [Status : status, ExitIP : ExitIPs, Domain : Domains]] :
              k \in 1 .. MaxServers }

\* catalogs of two logicals, with or without the secure-core feature
DomCatalogs ==
    { << [ID |-> "a", Name |-> NameOf("a"), ExitCountry |-> CountryOf("a"), Score |-> 5,
          Tier |-> FREE, Status |-> 1, Servers |-> p1, Features |-> f1],
         [ID |-> "b", Name |-> NameOf("b"), ExitCountry |-> CountryOf("b"), Score |-> 5,
          Tier |-> FREE, Status |-> 1, Servers |-> p2, Features |-> f2] >> :
        p1 \in PhysicalsOver({1}), p2 \in PhysicalsOver({1}),
        f1 \in {NORMAL, SECURE_CORE}, f2 \in {NORMAL, SECURE_CORE} }

NotSecureCoreMutant(s) == TRUE

\* "if FeatureEnum.SECURE_CORE not in logical_server.features"
NotSecureCore(s) == ~HasFeature(s, SECURE_CORE)

\* the physical servers of logical l that have the exit IP of p
SameExitIP(data, l, p) ==
    { k \in DOMAIN data[l].Servers : data[l].Servers[k].ExitIP = p.ExitIP }

\* match_server_domain: the loop over the list stops at the first logical
\* with a match; servers.pop() is the last match of that logical
MatchDomain(data, p) ==
    LET ls == { l \in DOMAIN data : NotSecureCore(data[l]) /\ SameExitIP(data, l, p) # {} }
    IN  IF ls = {} THEN p.Domain
        ELSE LET l == CHOOSE x \in ls : \A y \in ls : x <= y
                 k == CHOOSE x \in SameExitIP(data, l, p) :
                        \A y \in SameExitIP(data, l, p) : y <= x
             IN  data[l].Servers[k].Domain

\* servers.match_server_domain(physical_server): the physical server is
\* record pi of logical li of the list; sel.a keeps the domain it had
MatchServerDomain ==
    /\ \E li \in DOMAIN logicals : \E pi \in DOMAIN logicals[li].Servers :
         LET p == logicals[li].Servers[pi] IN
         /\ logicals' = [logicals EXCEPT ![li].Servers[pi].Domain = MatchDomain(logicals, p)]
         /\ sel' = Called("match_server_domain", li, p.Domain, "ok", << pi >>)
    /\ UNCHANGED views
    /\ ListFrame

InitDom ==
    /\ DaemonIdle
    /\ logicals \in DomCatalogs
    /\ views = << >>
    /\ env \in [vpn_tier : {FREE}, secure_core : {FALSE}]
    /\ sel = NoSel

NextDom == MatchServerDomain

SpecDom == InitDom /\ [][NextDom]_vars

\* the physical servers match_server_domain may take the domain from
Donors(data, p) ==
    { d \in (DOMAIN data) \X (1 .. MaxServers) :
        /\ d[2] \in DOMAIN data[d[1]].Servers
        /\ ~HasFeature(data[d[1]], SECURE_CORE)
        /\ data[d[1]].Servers[d[2]].ExitIP = p.ExitIP }

\* C32: match_server_domain(p) leaves in p.domain the domain of a physical
\* server with the exit IP of p that belongs to a logical without the
\* secure-core feature, when the list has one, and the domain p had when it
\* has none; nothing else in the list changes.
C32_MatchServerDomain ==
    [][sel'.op = "match_server_domain"
       => LET li == sel'.n
              pi == sel'.ids[1]
              p == logicals[li].Servers[pi]
              now == logicals'[li].Servers[pi].Domain
          IN  /\ Donors(logicals, p) # {}
                 => \E d \in Donors(logicals, p) : now = logicals[d[1]].Servers[d[2]].Domain
              /\ Donors(logicals, p) = {} => now = p.Domain
              /\ logicals' = [logicals EXCEPT ![li].Servers[pi].Domain = now]]_vars

\* the domain of a physical server of a secure-core logical was rewritten
C32_Witness ==
    /\ sel.op = "match_server_domain"
    /\ HasFeature(logicals[sel.n], SECURE_CORE)
    /\ logicals[sel.n].Servers[sel.ids[1]].Domain # sel.a


\* Load updates on catalogs whose logicals may have no enabled physical server
UpdCatalogs == CatalogsOver({FREE}, { << 0 >>, << 1 >> }, {NORMAL})

InitUpd ==
    /\ DaemonIdle
    /\ logicals \in UpdCatalogs
    /\ views = << >>
    /\ env \in [vpn_tier : {FREE}, secure_core : {FALSE}]
    /\ sel = NoSel

NextUpd == UpdateLoadDataSeen

SpecUpd == InitUpd /\ [][NextUpd]_vars

\* C33: update_load_data keeps the logicals of the catalog and their ID,
\* name, exit country, tier, features and physical servers; an entry with an
\* unknown ID changes nothing; the score and the status of a logical change
\* only to what an entry with its ID gives, and a key the entry does not have
\* leaves the value stored for it as it was.
C33_LoadUpdateFrame ==
    [][(sel'.op = "update_load_data" /\ sel'.res = "ok" /\ sel' # sel)
       => /\ Len(logicals') = Len(logicals)
          /\ \A i \in DOMAIN logicals :
               LET old == logicals[i]
                   new == logicals'[i]
                   us == { k \in DOMAIN sel'.ids : sel'.ids[k].ID = old.ID }
               IN  /\ new = [old EXCEPT !.Score = new.Score, !.Status = new.Status]
                   /\ us = {} => new = old
                   /\ (\A k \in us : sel'.ids[k].Score = Missing) => new.Score = old.Score
                   /\ (\A k \in us : sel'.ids[k].Status = Missing) => new.Status = old.Status]_vars


\* C34: with max_attempts > 0 the counter of failed attempts stays between 0
\* and max_attempts in every state, whatever events arrive and in whatever
\* order, the Failed handler being called by the activation attempt included.
C34_CounterBounded ==
    max_attempts > 0 => (0 <= failed_attempts /\ failed_attempts <= max_attempts)

\* the activation attempt of an Unlock has called the Failed handler itself
\* and the counter has reached max_attempts
C34_Witness ==
    /\ handler = "unlock" /\ hist.sched > 0
    /\ max_attempts > 0 /\ failed_attempts = max_attempts


\* C35: the tunnel connection never has more than one VpnStateChanged
\* listener of the daemon, so that a Failed event schedules one retry.
C35_OneListener ==
    /\ listeners <= 1
    /\ (handler = "vpn_event" /\ evt[1] = FAILED) => hist.sched <= 1


\* an arming of the kill switch is waiting to run or running
Arming ==
    \E i \in DOMAIN stack :
        \/ stack[i].op = "manage" /\ stack[i].c \in {"PRE_CONNECTION", "POST_CONNECTION", "SOFT"}
        \/ stack[i].op \in {"pre", "pre_ks", "post", "post_rt"}

\* C36: while the policy is Disabled no handler of the daemon and no step of
\* the client's connect or disconnect invokes an arming of the kill switch,
\* creates the blocking or the routed interface, or activates one of them.
C36_DisabledNeverArms ==
    [][(policy = "DISABLED" /\ policy' = "DISABLED" /\ handler' # "set_killswitch")
       => (/\ ~Arming'
           /\ \A c \in {KS, RT} : /\ nm'[c].e => nm[c].e
                                  /\ nm'[c].a => nm[c].a)]_vars

\* under the policy Disabled a retry timer has started the tunnel again
C36_Witness ==
    /\ policy = "DISABLED" /\ daemon = "running" /\ ~is_user_session_locked
    /\ handler = "timer" /\ hist.acts = 1 /\ vpn = "preparing" /\ Running("end")


\* C37: when the client's connect() has returned after a first tunnel state
\* other than Active, the kill switch is restored by the policy: under Hard
\* the blocking interface is active and the routed one absent, otherwise both
\* kill-switch interfaces and the IPv6 guard are absent; the daemon is started
\* only by a connect() whose first state is Active, and is running after it.
C37_ConnectRestores ==
    /\ (handler = "connect" /\ Running("end") /\ ~escaped /\ vpn # "active")
       => IF policy = "HARD"
          THEN nm[KS].a /\ ~nm[RT].e
          ELSE BothAbsent /\ ~nm[V6].e
    /\ handler = "startup" => vpn = "active"
    /\ (handler = "connect" /\ Running("end") /\ ~escaped /\ vpn = "active")
       => daemon = "running"


\* C38: the persisted policy changes only in the killswitch setter, as its
\* last statement, to the value asked for, after remove_leak_protection and
\* update_from_user_configuration_menu have returned without an error
\* leaving the setter; once an error has left the setter the persisted policy
\* stays as it is.
C38_PersistAfterSuccess ==
    [][/\ policy' # policy
          => (/\ handler = "set_killswitch" /\ Running("set_killswitch")
              /\ ~escaped
              /\ policy' = top.c
              /\ stack' = << Op("end") >>)
       /\ (handler = "set_killswitch" /\ escaped) => policy' = policy]_vars

\* the reconfiguration away from Permanent has raised on deleting the
\* blocking interface: the setter has ended, the interface is still there and
\* the persisted policy is still Permanent
C38_Witness ==
    /\ handler = "set_killswitch" /\ Running("end") /\ escaped
    /\ policy = "HARD" /\ nm[KS].e

====
